---------------------------- MODULE Spec2Model ----------------------------
(***************************************************************************)
(* A model of gosuda/sseuda's in-memory index: the bump-pointer arena      *)
(* (package marena), the SplitMix64 generator (package splitmix64) and the *)
(* arena-backed skip list with its iterator (package mskip).               *)
(*                                                                         *)
(* Representation of machine values:                                       *)
(*   - a 64-bit word (uint64, and the int handed to Allocate) is the       *)
(*     record [hi, lo] of its two 32-bit halves, value hi * 2^32 + lo.     *)
(*     The model only builds halves below 2^31;                            *)
(*   - an int64 that the code keeps below 2^31 (cursor, size, aligned      *)
(*     sizes of the modelled requests) is an integer;                      *)
(*   - a byte slice is [nil, data]: Go's nil slice and the empty non-nil   *)
(*     slice are different values with the same (empty) data;              *)
(*   - the arena buffer is sparse: an address that was never written       *)
(*     holds the zero byte of make([]byte, size);                          *)
(*   - the node records that mskip overlays on the buffer through          *)
(*     unsafe.Pointer are kept typed, in arena.nodes, keyed by offset;     *)
(*   - the SplitMix64 state is the sequence of its 8 bytes, little-endian. *)
(***************************************************************************)
EXTENDS Integers, Sequences, FiniteSets, TLC

\* ------------------------------------------------------------------------
\* marena: constants
\* ------------------------------------------------------------------------

ARENA_MAX_ALLOC_SIZE == 2147483647

ARENA_PAGESIZE == 65536

ARENA_INVALID_ADDRESS == 0

ARENA_MIN_ADDRESS == 128

MSKIP_MAX_LEVEL == 24

nodeMaxSize == 120

\* ------------------------------------------------------------------------
\* 64-bit words and byte slices
\* ------------------------------------------------------------------------

\* The uint64 whose high half is hi and whose low half is lo.
W(hi, lo) == [hi |-> hi, lo |-> lo]

\* uint64(n) / uint64(len(x)) for an int 0 <= n < 2^31.
U64(n) == W(0, n)

\* The untyped constant ARENA_INVALID_ADDRESS used as a uint64 handle.
InvalidHandle == U64(ARENA_INVALID_ADDRESS)

\* w > ARENA_MAX_ALLOC_SIZE on uint64.
GtMaxAlloc(w) == w.hi > 0 \/ w.lo > ARENA_MAX_ALLOC_SIZE

\* F(v), with v evaluated once, before F is.
With(v, F(_)) == CHOOSE r \in {F(x) : x \in {v}} : TRUE

NilSlice == [nil |-> TRUE, data |-> << >>]

Slice(s) == [nil |-> FALSE, data |-> s]

len(b) == Len(b.data)

\* ------------------------------------------------------------------------
\* marena: the arena
\* ------------------------------------------------------------------------

\* NewArena(size): the buffer is all zero (nothing written), no node record
\* has been overlaid yet.
NewArena(reqSize) ==
    LET rounded == ((reqSize + (ARENA_PAGESIZE - 1)) \div ARENA_PAGESIZE) * ARENA_PAGESIZE
    IN  [buffer |-> << >>,
         nodes  |-> << >>,
         size   |-> IF rounded > ARENA_MAX_ALLOC_SIZE
                    THEN ARENA_MAX_ALLOC_SIZE + 1
                    ELSE rounded,
         cursor |-> ARENA_MIN_ADDRESS]

\* align with the + 7 left out: n is rounded down.
alignDown(n) == (n \div 8) * 8

\* align rounds n up to an 8-byte boundary: ((n + 7) >> 3) << 3.
align(n) == ((n + 7) \div 8) * 8

\* The address built from the aligned size instead of the size asked for.
PackAligned(indexStart, size) == W(indexStart, ((size + 7) \div 8) * 8)

\* uint64(indexStart)<<32 | uint64(size), for size < 2^32.
Pack(indexStart, size) == W(indexStart, size)

Size(address) == address.lo

Offset(address) == address.hi

\* Allocate without the check against the loaded cursor: only the size
\* limit keeps a call from the atomic add.
AllocatePassesNoLoad(a, size) == ~GtMaxAlloc(size)

\* Allocate with the check against the loaded cursor made strict: a block
\* that would end exactly at the end of the buffer is refused.
AllocatePassesStrict(a, size) ==
    /\ ~GtMaxAlloc(size)
    /\ ~(a.cursor + align(size.lo) >= a.size)

\* Allocate, up to and including the atomic load of the cursor: TRUE when the
\* call goes on to the atomic add.
AllocatePasses(a, size) ==
    /\ ~GtMaxAlloc(size)
    /\ ~(a.cursor + align(size.lo) > a.size)

\* Allocate whose add is lost: the block starts at the cursor, which
\* stays where it was.
AllocateAddLost(a, size) ==
    [arena |-> a,
     addr  |-> IF a.cursor + align(size.lo) > a.size
               THEN InvalidHandle
               ELSE Pack(a.cursor, size.lo)]

\* Allocate from the atomic add on: the arena after the add and the address
\* returned.
AllocateAdd(a, size) ==
    LET sizeAligned == align(size.lo)
        indexEnd    == a.cursor + sizeAligned
        indexStart  == indexEnd - sizeAligned
    IN  [arena |-> [a EXCEPT !.cursor = indexEnd],
         addr  |-> IF indexEnd > a.size
                   THEN InvalidHandle
                   ELSE Pack(indexStart, size.lo)]

\* Allocate(size) run by a single caller.
Allocate(a, size) ==
    IF AllocatePasses(a, size)
    THEN AllocateAdd(a, size)
    ELSE [arena |-> a, addr |-> InvalidHandle]

RECURSIVE SumAligned(_)
\* totalSize of AllocateMultiple: the sum of the aligned sizes of the slots.
SumAligned(slots) ==
    IF slots = << >> THEN 0
    ELSE align(Head(slots).lo) + SumAligned(Tail(slots))

RECURSIVE DistributeUnaligned(_, _)
\* The address loop stepping by the size asked for instead of the aligned
\* size: the blocks follow each other without padding.
DistributeUnaligned(slots, indexStart) ==
    IF slots = << >> THEN << >>
    ELSE <<Pack(indexStart, Head(slots).lo)>>
         \o DistributeUnaligned(Tail(slots), indexStart + Head(slots).lo)

RECURSIVE Distribute(_, _)
\* The last loop of AllocateMultiple: each slot is overwritten with its
\* address, the blocks following each other from indexStart.
Distribute(slots, indexStart) ==
    IF slots = << >> THEN << >>
    ELSE <<Pack(indexStart, Head(slots).lo)>>
         \o Distribute(Tail(slots), indexStart + align(Head(slots).lo))

\* AllocateMultiple up to and including the atomic load of the cursor.
AllocateMultiplePasses(a, slots) ==
    /\ \A i \in DOMAIN slots : ~GtMaxAlloc(slots[i])
    /\ ~(a.cursor + SumAligned(slots) > a.size)

\* AllocateMultipleAdd with the address loop run before the test of
\* indexEnd: the slots are overwritten even when the call returns false.
AllocateMultipleAddWrites(a, slots) ==
    LET totalSize  == SumAligned(slots)
        indexEnd   == a.cursor + totalSize
        indexStart == indexEnd - totalSize
    IN  [arena |-> [a EXCEPT !.cursor = indexEnd],
         ok    |-> ~(indexEnd > a.size),
         slots |-> Distribute(slots, indexStart)]

\* AllocateMultiple from the atomic add on.
AllocateMultipleAdd(a, slots) ==
    LET totalSize  == SumAligned(slots)
        indexEnd   == a.cursor + totalSize
        indexStart == indexEnd - totalSize
    IN  [arena |-> [a EXCEPT !.cursor = indexEnd],
         ok    |-> ~(indexEnd > a.size),
         slots |-> IF indexEnd > a.size THEN slots
                   ELSE Distribute(slots, indexStart)]

\* AllocateMultiple(slots...) run by a single caller.
AllocateMultiple(a, slots) ==
    IF AllocateMultiplePasses(a, slots)
    THEN AllocateMultipleAdd(a, slots)
    ELSE [arena |-> a, ok |-> FALSE, slots |-> slots]

\* buffer[i] of the sparse buffer.
ByteAt(a, i) == IF i \in DOMAIN a.buffer THEN a.buffer[i] ELSE 0

\* View without the lower bound: only the end of the range is checked.
ViewNoLowerBound(a, address) ==
    LET offset == address.hi
        size   == address.lo
    IN  IF offset + size > a.size
        THEN NilSlice
        ELSE Slice([i \in 1..size |-> ByteAt(a, offset + i - 1)])

\* View(address): nil, or the slice buffer[offset : offset+size].
View(a, address) ==
    LET offset == address.hi
        size   == address.lo
    IN  IF offset < ARENA_MIN_ADDRESS \/ offset + size > a.size
        THEN NilSlice
        ELSE Slice([i \in 1..size |-> ByteAt(a, offset + i - 1)])

\* copy(View(address), src): min(len(view), len(src)) bytes are written
\* through the view into the buffer.
CopyToView(a, address, src) ==
    LET n    == IF len(View(a, address)) < len(src)
                THEN len(View(a, address)) ELSE len(src)
        dest == address.hi .. (address.hi + n - 1)
    IN  [a EXCEPT !.buffer =
            [i \in dest |-> src.data[i - address.hi + 1]] @@ a.buffer]

\* Remaining(): size - cursor.
Remaining(a) == a.size - a.cursor

\* Reset without the zeroing loop: only the cursor is stored.
ResetCursorOnly(a) == [a EXCEPT !.cursor = ARENA_MIN_ADDRESS]

\* Reset(): the cursor goes back to ARENA_MIN_ADDRESS and every byte of the
\* buffer (the node records with it) is zeroed.
Reset(a) == [a EXCEPT !.cursor = ARENA_MIN_ADDRESS,
                      !.buffer = << >>,
                      !.nodes  = << >>]

\* ------------------------------------------------------------------------
\* splitmix64
\* ------------------------------------------------------------------------

\* The uint64 n, 0 <= n < 2^31, as its 8 bytes, least significant first.
Bytes8(n) ==
    <<n % 256, (n \div 256) % 256, (n \div 65536) % 256,
      (n \div 16777216) % 256, 0, 0, 0, 0>>

\* 0x9e3779b97f4a7c15
IncrementConstant == <<21, 124, 74, 127, 185, 121, 55, 158>>

\* 0xbf58476d1ce4e5b9
MixConstant1 == <<185, 229, 228, 28, 109, 71, 88, 191>>

\* 0x94d049bb133111eb
MixConstant2 == <<235, 17, 49, 19, 187, 73, 208, 148>>

\* Bit i (0 = least significant) of the 64-bit word x.
BitAt(x, i) == (x[(i \div 8) + 1] \div (2 ^ (i % 8))) % 2

\* Bit i of x ^ (x >> k).
XorShrBit(x, k, i) ==
    (BitAt(x, i) + (IF i + k <= 63 THEN BitAt(x, i + k) ELSE 0)) % 2

\* Byte b (1 = least significant) of x ^ (x >> k).
XorShrByte(x, k, b) ==
      XorShrBit(x, k, 8 * b - 8)      + 2 * XorShrBit(x, k, 8 * b - 7)
    + 4 * XorShrBit(x, k, 8 * b - 6)  + 8 * XorShrBit(x, k, 8 * b - 5)
    + 16 * XorShrBit(x, k, 8 * b - 4) + 32 * XorShrBit(x, k, 8 * b - 3)
    + 64 * XorShrBit(x, k, 8 * b - 2) + 128 * XorShrBit(x, k, 8 * b - 1)

\* x ^ (x >> k) on uint64.
XorShr(x, k) ==
    <<XorShrByte(x, k, 1), XorShrByte(x, k, 2), XorShrByte(x, k, 3),
      XorShrByte(x, k, 4), XorShrByte(x, k, 5), XorShrByte(x, k, 6),
      XorShrByte(x, k, 7), XorShrByte(x, k, 8)>>

RECURSIVE Carry(_, _, _)
\* The bytes b..8 of a uint64 from its column sums cols (carry coming into
\* byte b); the carry out of byte 8 is dropped: arithmetic modulo 2^64.
Carry(cols, b, carry) ==
    IF b > 8 THEN << >>
    ELSE With(cols[b] + carry,
              LAMBDA t : <<t % 256>> \o Carry(cols, b + 1, t \div 256))

\* x + y on uint64 (wrapping).
Add64(x, y) ==
    Carry(<<x[1] + y[1], x[2] + y[2], x[3] + y[3], x[4] + y[4],
            x[5] + y[5], x[6] + y[6], x[7] + y[7], x[8] + y[8]>>, 1, 0)

RECURSIVE Column(_, _, _, _)
\* The sum of x[i] * y[b + 1 - i] for i in 1..n: column b of the product.
Column(x, y, b, n) ==
    IF n = 0 THEN 0 ELSE x[n] * y[b + 1 - n] + Column(x, y, b, n - 1)

\* x * y on uint64 (wrapping).
Mul64(x, y) ==
    Carry(<<Column(x, y, 1, 1), Column(x, y, 2, 2), Column(x, y, 3, 3),
            Column(x, y, 4, 4), Column(x, y, 5, 5), Column(x, y, 6, 6),
            Column(x, y, 7, 7), Column(x, y, 8, 8)>>, 1, 0)

\* next: the SplitMix64 finalizer.
next(x0) ==
    With(Mul64(XorShr(x0, 30), MixConstant1), LAMBDA x1 :
    With(Mul64(XorShr(x1, 27), MixConstant2), LAMBDA x2 :
    XorShr(x2, 31)))

\* Splitmix64(&state): the state after the call and the value returned.
Splitmix64(state) ==
    With(Add64(state, IncrementConstant),
         LAMBDA s : [state |-> s, value |-> next(s)])

\* ------------------------------------------------------------------------
\* mskip: the skip list
\* ------------------------------------------------------------------------

\* The size of a node record without the 4 bytes that follow the level
\* field's slot in the 120 of nodeMaxSize: 20 bytes and the links.
sizeNodePacked(nodeLevel) == 20 + nodeLevel * 4

\* sizeNode(nodeLevel) = nodeMaxSize - MSKIP_MAX_LEVEL*4 + nodeLevel*4.
sizeNode(nodeLevel) == nodeMaxSize - MSKIP_MAX_LEVEL * 4 + nodeLevel * 4

RECURSIVE randLevelLoopCap23(_, _)
\* The loop of randLevel stopping one level early: no draw is taken once
\* level has reached MSKIP_MAX_LEVEL - 1.
randLevelLoopCap23(level, seed) ==
    IF level < MSKIP_MAX_LEVEL - 1
    THEN With(Splitmix64(seed), LAMBDA d :
             IF d.value[1] % 2 = 0
             THEN randLevelLoopCap23(level + 1, d.state)
             ELSE [level |-> level, seed |-> d.state])
    ELSE [level |-> level, seed |-> seed]

RECURSIVE randLevelLoop(_, _)
\* The loop of randLevel from `level` on: a draw is taken only while
\* level < MSKIP_MAX_LEVEL, and an even draw raises the level.
randLevelLoop(level, seed) ==
    IF level < MSKIP_MAX_LEVEL
    THEN With(Splitmix64(seed), LAMBDA d :
             IF d.value[1] % 2 = 0
             THEN randLevelLoop(level + 1, d.state)
             ELSE [level |-> level, seed |-> d.state])
    ELSE [level |-> level, seed |-> seed]

\* The seeds of the repository's tests.
Seeds == {42, 12345}

RECURSIVE StatesFrom(_, _)
\* The generator states seed passes through in n draws, seed included.
StatesFrom(seed, n) ==
    IF n = 0 THEN {seed}
    ELSE {seed} \cup StatesFrom(Add64(seed, IncrementConstant), n - 1)

\* randLevelLoop(1, s) for the generator states the runs start from and
\* pass through, computed once.
randLevelMemo ==
    [s \in UNION {StatesFrom(Bytes8(s0), 24) : s0 \in Seeds} |->
        randLevelLoop(1, s)]

\* randLevel(): the level drawn and the seed left behind.
randLevel(seed) ==
    IF seed \in DOMAIN randLevelMemo THEN randLevelMemo[seed]
    ELSE randLevelLoop(1, seed)

RECURSIVE compareFrom(_, _, _)
\* bytes.Compare from index i on: the first differing byte decides, then
\* the shorter slice is the smaller.
compareFrom(x, y, i) ==
    IF i > Len(x) /\ i > Len(y) THEN 0
    ELSE IF i > Len(x) THEN -1
    ELSE IF i > Len(y) THEN 1
    ELSE IF x[i] < y[i] THEN -1
    ELSE IF x[i] > y[i] THEN 1
    ELSE compareFrom(x, y, i + 1)

\* The comparator handed to NewSkipList: bytes.Compare (a nil slice compares
\* as the empty slice).
compare(key1, key2) == compareFrom(key1.data, key2.data, 1)

\* The bytes of a record no one has written yet: all zero.
ZeroNode(level) ==
    [keyPtr   |-> InvalidHandle,
     valuePtr |-> InvalidHandle,
     level    |-> 0,
     nexts    |-> [i \in 0..(level - 1) |-> ARENA_INVALID_ADDRESS]]

\* getNode(ptr): the node record overlaid on the buffer at offset ptr.
getNode(a, ptr) == a.nodes[ptr]

\* A store through getNode(ptr): the record at ptr becomes n.
putNode(a, ptr, n) == [a EXCEPT !.nodes = (ptr :> n) @@ a.nodes]

\* NewSkipList(arena, compare, seed): the arena and the list after the call;
\* ok is FALSE when the head node could not be allocated.
NewSkipList(a, seed) ==
    LET al   == Allocate(a, U64(sizeNode(MSKIP_MAX_LEVEL)))
        head == [keyPtr   |-> InvalidHandle,
                 valuePtr |-> InvalidHandle,
                 level    |-> MSKIP_MAX_LEVEL,
                 nexts    |-> [i \in 0..(MSKIP_MAX_LEVEL - 1) |-> ARENA_INVALID_ADDRESS]]
    IN  IF al.addr = InvalidHandle
        THEN [ok |-> FALSE, arena |-> al.arena,
              skl |-> [seed |-> seed, head |-> 0, refCount |-> 1]]
        ELSE [ok |-> TRUE,
              arena |-> putNode(al.arena, Offset(al.addr), head),
              skl |-> [seed |-> seed, head |-> Offset(al.addr), refCount |-> 1]]

\* The inner loop of seeklt cut to one round: at most one node is passed
\* at each level.
seekltWalkOneStep(a, key, ptr, i) ==
    LET nxt == getNode(a, ptr).nexts[i]
    IN  IF nxt = ARENA_INVALID_ADDRESS
           \/ compare(key, View(a, getNode(a, nxt).keyPtr)) <= 0
        THEN ptr
        ELSE nxt

RECURSIVE seekltWalkPassEqual(_, _, _, _)
\* The inner loop of seeklt that also passes a node whose key equals key:
\* it stops only before a larger key.
seekltWalkPassEqual(a, key, ptr, i) ==
    LET nxt == getNode(a, ptr).nexts[i]
    IN  IF nxt = ARENA_INVALID_ADDRESS
           \/ compare(key, View(a, getNode(a, nxt).keyPtr)) < 0
        THEN ptr
        ELSE seekltWalkPassEqual(a, key, nxt, i)

RECURSIVE seekltWalk(_, _, _, _)
\* The inner loop of seeklt at level i: the last node from ptr on whose
\* successor at level i is absent or has a key >= key.
seekltWalk(a, key, ptr, i) ==
    LET nxt == getNode(a, ptr).nexts[i]
    IN  IF nxt = ARENA_INVALID_ADDRESS
           \/ compare(key, View(a, getNode(a, nxt).keyPtr)) <= 0
        THEN ptr
        ELSE seekltWalk(a, key, nxt, i)

RECURSIVE seekltLevels(_, _, _, _)
\* The outer loop of seeklt from level i down to level 0: the values
\* written to log[i], log[i-1], ..., log[0], in this order.
seekltLevels(a, key, ptr, i) ==
    LET p == seekltWalk(a, key, ptr, i)
    IN  IF i = 0 THEN <<p>>
        ELSE <<p>> \o seekltLevels(a, key, p, i - 1)

\* SkipList.seeklt(key, log): the offset returned (the last ptr, which is
\* log[0]) and the log filled in.
seeklt(a, g, key) ==
    With(seekltLevels(a, key, g.head, MSKIP_MAX_LEVEL - 1), LAMBDA ps :
        [ptr |-> ps[MSKIP_MAX_LEVEL],
         log |-> [i \in 0..(MSKIP_MAX_LEVEL - 1) |-> ps[MSKIP_MAX_LEVEL - i]]])

RECURSIVE linkLevelsDropTail(_, _, _, _, _)
\* The linking loop without its first store: the new node's links stay 0,
\* so what followed the predecessor is cut off.
linkLevelsDropTail(a, log, ptr, i, level) ==
    IF i >= level THEN a
    ELSE With(putNode(a, log[i], [getNode(a, log[i]) EXCEPT !.nexts[i] = ptr]),
         LAMBDA a2 :
         linkLevelsDropTail(a2, log, ptr, i + 1, level))

\* The linking loop cut to its first round: the new node is linked at
\* level 0 only, whatever its level.
linkLevelsBottomOnly(a, log, ptr, i, level) ==
    IF i >= 1 \/ i >= level THEN a
    ELSE With(putNode(a, ptr, [getNode(a, ptr) EXCEPT
                                 !.nexts[i] = getNode(a, log[i]).nexts[i]]),
         LAMBDA a1 :
         putNode(a1, log[i], [getNode(a1, log[i]) EXCEPT !.nexts[i] = ptr]))

RECURSIVE linkLevels(_, _, _, _, _)
\* The linking loop of insertNext from level i on: the new node takes its
\* predecessor's successor, then the predecessor points to the new node.
linkLevels(a, log, ptr, i, level) ==
    IF i >= level THEN a
    ELSE With(putNode(a, ptr, [getNode(a, ptr) EXCEPT
                                 !.nexts[i] = getNode(a, log[i]).nexts[i]]),
         LAMBDA a1 :
         With(putNode(a1, log[i], [getNode(a1, log[i]) EXCEPT !.nexts[i] = ptr]),
         LAMBDA a2 :
         linkLevels(a2, log, ptr, i + 1, level)))

\* A store to getNode(ptr).valuePtr.
setValuePtr(a, ptr, addr) ==
    putNode(a, ptr, [getNode(a, ptr) EXCEPT !.valuePtr = addr])

\* insertExisting with the delete dropped: a nil value leaves the node's
\* value where it is.
insertExistingNoDelete(a, g, nxt, value) ==
    IF value.nil
    THEN [arena |-> a, skl |-> g, ret |-> nxt]
    ELSE With(Allocate(a, U64(len(value))), LAMBDA al :
             IF al.addr = InvalidHandle
             THEN [arena |-> al.arena, skl |-> g, ret |-> ARENA_INVALID_ADDRESS]
             ELSE [arena |-> setValuePtr(CopyToView(al.arena, al.addr, value),
                                         nxt, al.addr),
                   skl |-> g, ret |-> nxt])

\* insertExisting with a delete that reserves a byte before it marks the
\* node.
insertExistingDeleteAllocates(a, g, nxt, value) ==
    With(Allocate(a, U64(IF value.nil THEN 1 ELSE len(value))), LAMBDA al :
        IF al.addr = InvalidHandle
        THEN [arena |-> al.arena, skl |-> g, ret |-> ARENA_INVALID_ADDRESS]
        ELSE IF value.nil
        THEN [arena |-> setValuePtr(al.arena, nxt, InvalidHandle),
              skl |-> g, ret |-> nxt]
        ELSE [arena |-> setValuePtr(CopyToView(al.arena, al.addr, value),
                                    nxt, al.addr),
              skl |-> g, ret |-> nxt])

\* insertNext, the branch for a key the list already holds (nxt is its
\* node): a nil value marks it deleted, any other value is stored in a
\* fresh block.
insertExisting(a, g, nxt, value) ==
    IF value.nil
    THEN [arena |-> setValuePtr(a, nxt, InvalidHandle), skl |-> g, ret |-> nxt]
    ELSE With(Allocate(a, U64(len(value))), LAMBDA al :
             IF al.addr = InvalidHandle
             THEN [arena |-> al.arena, skl |-> g, ret |-> ARENA_INVALID_ADDRESS]
             ELSE [arena |-> setValuePtr(CopyToView(al.arena, al.addr, value),
                                         nxt, al.addr),
                   skl |-> g, ret |-> nxt])

\* insertValueAndLink with the two steps swapped: the node is linked
\* first, its value allocated afterwards.
insertLinkThenValue(a1, g1, log, ptr, level, value) ==
    With(linkLevels(a1, log, ptr, 0, level), LAMBDA a2 :
        IF value.nil
        THEN [arena |-> setValuePtr(a2, ptr, InvalidHandle),
              skl |-> g1, ret |-> ptr]
        ELSE With(Allocate(a2, U64(len(value))), LAMBDA al :
                 IF al.addr = InvalidHandle
                 THEN [arena |-> al.arena, skl |-> g1,
                       ret |-> ARENA_INVALID_ADDRESS]
                 ELSE [arena |-> setValuePtr(
                                    CopyToView(al.arena, al.addr, value),
                                    ptr, al.addr),
                       skl |-> g1, ret |-> ptr]))

\* insertNext for a new key, from the value allocation on: a1 holds the
\* initialised node at ptr; the value is stored, then the node is linked.
insertValueAndLink(a1, g1, log, ptr, level, value) ==
    IF value.nil
    THEN [arena |-> linkLevels(setValuePtr(a1, ptr, InvalidHandle),
                               log, ptr, 0, level),
          skl |-> g1, ret |-> ptr]
    ELSE With(Allocate(a1, U64(len(value))), LAMBDA al :
             IF al.addr = InvalidHandle
             THEN [arena |-> al.arena, skl |-> g1, ret |-> ARENA_INVALID_ADDRESS]
             ELSE [arena |-> linkLevels(
                                setValuePtr(CopyToView(al.arena, al.addr, value),
                                            ptr, al.addr),
                                log, ptr, 0, level),
                   skl |-> g1, ret |-> ptr])

\* insertNext, the branch for a new key: level draw, node and key
\* allocation, node initialisation, then the value and the links.
insertNew(a, g, log, key, value) ==
    With(randLevel(g.seed), LAMBDA rl :
    With(AllocateMultiple(a, <<U64(sizeNode(rl.level)), U64(len(key))>>),
    LAMBDA am :
        IF ~am.ok
        THEN [arena |-> am.arena, skl |-> [g EXCEPT !.seed = rl.seed],
              ret |-> ARENA_INVALID_ADDRESS]
        ELSE With(CopyToView(
                    putNode(am.arena, Offset(am.slots[1]),
                            [ZeroNode(rl.level) EXCEPT !.level = rl.level,
                                                       !.keyPtr = am.slots[2]]),
                    am.slots[2], key),
             LAMBDA a1 :
                 insertValueAndLink(a1, [g EXCEPT !.seed = rl.seed], log,
                                    Offset(am.slots[1]), rl.level, value))))

\* insertNext without the test for a key the list already holds: every
\* call adds a node.
insertNextAlwaysNew(a, g, log, key, value) ==
    insertNew(a, g, log, key, value)

\* insertNext(log, key, value): the arena and the list after the call and
\* the offset returned.
insertNext(a, g, log, key, value) ==
    With(getNode(a, log[0]).nexts[0], LAMBDA nxt :
        IF nxt # ARENA_INVALID_ADDRESS
           /\ compare(key, View(a, getNode(a, nxt).keyPtr)) = 0
        THEN insertExisting(a, g, nxt, value)
        ELSE insertNew(a, g, log, key, value))

\* Insert(key, value): seeklt fills the log, insertNext does the rest; ok is
\* the boolean Insert returns, ret the offset insertNext returned.
Insert(a, g, key, value) ==
    With(seeklt(a, g, key), LAMBDA s :
    With(insertNext(a, g, s.log, key, value), LAMBDA r :
        [arena |-> r.arena, skl |-> r.skl, ret |-> r.ret,
         ok |-> r.ret # ARENA_INVALID_ADDRESS]))

\* A DecRef that stores 1, as if the iterator closed were the only one.
DecRefToOne(g) == [g EXCEPT !.refCount = 1]

\* IncRef / DecRef: atomic.AddInt64(&g.refCount, +1 / -1).
IncRef(g) == [g EXCEPT !.refCount = g.refCount + 1]

DecRef(g) == [g EXCEPT !.refCount = g.refCount - 1]

RefCount(g) == g.refCount

\* ------------------------------------------------------------------------
\* mskip: the iterator.  An iterator is [skl, current]: skl tells whether
\* it holds the list (TRUE) or nil (FALSE).
\* ------------------------------------------------------------------------

\* Valid(): current != ARENA_INVALID_ADDRESS.
IterValid(it) == it.current # ARENA_INVALID_ADDRESS

\* Key(): nil when not valid, else the view of the current node's key.
IterKey(a, it) ==
    IF ~IterValid(it) THEN NilSlice
    ELSE View(a, getNode(a, it.current).keyPtr)

\* Value(): nil when not valid or on a tombstone, else the view of the
\* current node's value.
IterValue(a, it) ==
    IF ~IterValid(it) THEN NilSlice
    ELSE IF getNode(a, it.current).valuePtr = InvalidHandle THEN NilSlice
    ELSE View(a, getNode(a, it.current).valuePtr)

\* Next with its loop cut to one step: it stops on the very next node, a
\* tombstone included.
IterNextOneStep(a, it) ==
    [it EXCEPT !.current = getNode(a, it.current).nexts[0]]

RECURSIVE IterNextLoop(_, _)
\* The loop of Next: move along level 0 until the iterator is invalid or
\* its value is not nil.
IterNextLoop(a, it) ==
    With([it EXCEPT !.current = getNode(a, it.current).nexts[0]], LAMBDA it1 :
        IF ~IterValid(it1) \/ ~IterValue(a, it1).nil THEN it1
        ELSE IterNextLoop(a, it1))

\* Next(): the iterator after the call and the boolean returned.
IterNext(a, it) ==
    IF ~IterValid(it) THEN [it |-> it, ret |-> FALSE]
    ELSE With(IterNextLoop(a, it),
              LAMBDA it1 : [it |-> it1, ret |-> IterValid(it1)])

\* First(): from the head node, Next.
IterFirst(a, g, it) ==
    With(IterNext(a, [it EXCEPT !.current = g.head]),
         LAMBDA r : [it |-> r.it, ret |-> IterValid(r.it)])

\* SkipListIterator.seeklt(key): current becomes what SkipList.seeklt
\* returns.
IterSeeklt(a, g, it, key) ==
    [it EXCEPT !.current = seeklt(a, g, key).ptr]

\* seekle without its branch for a predecessor that is the head: the
\* head is treated as any other predecessor.
IterSeekleNoHeadCase(a, g, it, key) ==
    With(seeklt(a, g, key).ptr, LAMBDA prevNodePtr :
    LET nextNodePtr == getNode(a, prevNodePtr).nexts[0]
    IN  IF nextNodePtr # ARENA_INVALID_ADDRESS
           /\ compare(key, View(a, getNode(a, nextNodePtr).keyPtr)) = 0
        THEN [it EXCEPT !.current = nextNodePtr]
        ELSE [it EXCEPT !.current = prevNodePtr])

\* SkipListIterator.seekle(key).
IterSeekle(a, g, it, key) ==
    With(seeklt(a, g, key).ptr, LAMBDA prevNodePtr :
    LET firstNodePtr == getNode(a, g.head).nexts[0]
        nextNodePtr  == getNode(a, prevNodePtr).nexts[0]
    IN  IF prevNodePtr = g.head
        THEN IF firstNodePtr # ARENA_INVALID_ADDRESS
                /\ compare(key, View(a, getNode(a, firstNodePtr).keyPtr)) = 0
             THEN [it EXCEPT !.current = firstNodePtr]
             ELSE [it EXCEPT !.current = ARENA_INVALID_ADDRESS]
        ELSE IF nextNodePtr # ARENA_INVALID_ADDRESS
                /\ compare(key, View(a, getNode(a, nextNodePtr).keyPtr)) = 0
             THEN [it EXCEPT !.current = nextNodePtr]
             ELSE [it EXCEPT !.current = prevNodePtr])

\* Seek(key): seekle, then one Next when the key found is smaller than key.
IterSeek(a, g, it, key) ==
    With(IterSeekle(a, g, it, key), LAMBDA it1 :
    With(IF IterValid(it1) /\ compare(IterKey(a, it1), key) < 0
         THEN IterNext(a, it1).it
         ELSE it1,
    LAMBDA it2 : [it |-> it2, ret |-> IterValid(it2)]))

RECURSIVE IterPrevLive(_, _, _)
\* Prev made to skip tombstones the way Next does: it goes on to the next
\* smaller key while the node it reached has no value.
IterPrevLive(a, g, it) ==
    IF ~IterValid(it) THEN [it |-> it, ret |-> FALSE]
    ELSE With(seeklt(a, g, View(a, getNode(a, it.current).keyPtr)).ptr,
         LAMBDA prevNodePtr :
             IF prevNodePtr = g.head
             THEN [it |-> [it EXCEPT !.current = ARENA_INVALID_ADDRESS],
                   ret |-> FALSE]
             ELSE IF getNode(a, prevNodePtr).valuePtr = InvalidHandle
             THEN IterPrevLive(a, g, [it EXCEPT !.current = prevNodePtr])
             ELSE [it |-> [it EXCEPT !.current = prevNodePtr], ret |-> TRUE])

\* Prev without its test for the head: the iterator takes whatever seeklt
\* returns.
IterPrevNoHeadCase(a, g, it) ==
    IF ~IterValid(it) THEN [it |-> it, ret |-> FALSE]
    ELSE With(View(a, getNode(a, it.current).keyPtr), LAMBDA currentKeyBytes :
         With(seeklt(a, g, currentKeyBytes).ptr, LAMBDA prevNodePtr :
             [it |-> [it EXCEPT !.current = prevNodePtr], ret |-> TRUE]))

\* Prev(): seeklt on the current key; the head is turned into the invalid
\* offset.
IterPrev(a, g, it) ==
    IF ~IterValid(it) THEN [it |-> it, ret |-> FALSE]
    ELSE With(View(a, getNode(a, it.current).keyPtr), LAMBDA currentKeyBytes :
         With(seeklt(a, g, currentKeyBytes).ptr, LAMBDA prevNodePtr :
             IF prevNodePtr = g.head
             THEN [it |-> [it EXCEPT !.current = ARENA_INVALID_ADDRESS],
                   ret |-> FALSE]
             ELSE [it |-> [it EXCEPT !.current = prevNodePtr], ret |-> TRUE]))

\* Iterator(): the iterator handed out (IncRef is the caller's step).
NewIterator == [skl |-> TRUE, current |-> ARENA_INVALID_ADDRESS]

\* The iterator as Close leaves it (DecRef is the caller's step).
ClosedIterator == [skl |-> FALSE, current |-> ARENA_INVALID_ADDRESS]

\* ------------------------------------------------------------------------
\* The program as a state machine: one writer and one iterator on a list.
\* ------------------------------------------------------------------------

VARIABLES
    arena,      \* the marena.Arena the list lives in
    skl,        \* the SkipList: [seed, head, refCount]
    iter,       \* the SkipListIterator: [skl, current]
    last,       \* the last call made: its name, arguments and results, and
                \* for an Insert the arena, list and latest before the call
    latest,     \* per key, the value of its most recent successful Insert
    ninserts,   \* the number of Insert calls made so far
    refs,       \* concurrent Iterator()/Close() callers: each one's position
    allocs,     \* concurrent arena callers: each one's call in progress
    blocks,     \* the blocks the arena calls handed out, in order
    serial,     \* no call of the concurrent callers has begun while
                \* another was in progress
    ncalls,     \* the number of arena calls begun so far
    calls       \* concurrent callers of the list: each one's Insert or
                \* seeklt in progress, step by step

vars == <<arena, skl, iter, last, latest, ninserts,
          refs, allocs, blocks, serial, ncalls, calls>>

\* What the single-writer runs leave alone: the state of the concurrent
\* callers of the other two specifications.
callerVars == <<refs, allocs, blocks, serial, ncalls, calls>>

\* What the runs of the arena callers and of the Iterator()/Close() callers
\* leave alone.
listVars == <<iter, last, latest, ninserts>>

\* The Insert calls of one run.
MaxInserts == 3

\* The keys the callers use: keys of different lengths, one a prefix of
\* another.
Keys == {Slice(<<1>>), Slice(<<1, 2>>), Slice(<<2>>)}

\* The values the n-th Insert call (counted from 0) may be given: nil
\* (delete) or one byte that tells the calls apart (11, 12, ...: no byte
\* of a key), and for the first call also the empty non-nil slice.
Values(n) ==
    {NilSlice, Slice(<<n + 11>>)} \cup (IF n = 0 THEN {Slice(<< >>)} ELSE {})

\* The arena is the caller's: before the list is built on it, the caller
\* has allocated nothing, or all but 88 bytes of what the head node leaves
\* (room for one node with its key and value, and one more node and key).
NearlyFull == ARENA_PAGESIZE - ARENA_MIN_ADDRESS - nodeMaxSize - 88

\* The runs, each a seed of the tests and what the caller allocated before:
\* seed 12345 on an empty arena, seed 42 on the nearly full one.
Configs == {<<12345, 0>>, <<42, NearlyFull>>}

NoCall == [op |-> "New", key |-> NilSlice, value |-> NilSlice,
           ret |-> 0, ok |-> TRUE, pre |-> << >>]

Init ==
    \E c \in Configs :
        \E n \in {NewSkipList(Allocate(NewArena(ARENA_PAGESIZE), U64(c[2])).arena,
                              Bytes8(c[1]))} :
            /\ n.ok
            /\ arena = n.arena
            /\ skl = n.skl
            /\ iter = ClosedIterator
            /\ last = NoCall
            /\ latest = << >>
            /\ ninserts = 0
            /\ refs = << >>
            /\ allocs = << >>
            /\ blocks = << >>
            /\ serial = TRUE
            /\ ncalls = 0
            /\ calls = << >>

\* g.Insert(key, value)
DoInsert ==
    \E key \in Keys, value \in Values(ninserts) :
        \E r \in {Insert(arena, skl, key, value)} :
            /\ ninserts < MaxInserts
            /\ ninserts' = ninserts + 1
            /\ arena' = r.arena
            /\ skl' = r.skl
            /\ last' = [op |-> "Insert", key |-> key, value |-> value,
                        ret |-> r.ret, ok |-> r.ok,
                        pre |-> [arena |-> arena, skl |-> skl,
                                 latest |-> latest]]
            /\ latest' = IF r.ok THEN (key :> value) @@ latest ELSE latest
            /\ UNCHANGED <<iter, callerVars>>

\* iter := g.Iterator()
DoIterator ==
    /\ ~iter.skl
    /\ skl' = IncRef(skl)
    /\ iter' = NewIterator
    /\ last' = [NoCall EXCEPT !.op = "Iterator"]
    /\ UNCHANGED <<arena, latest, ninserts, callerVars>>

\* iter.First()
DoFirst ==
    \E r \in {IterFirst(arena, skl, iter)} :
        /\ iter.skl
        /\ iter' = r.it
        /\ last' = [NoCall EXCEPT !.op = "First", !.ok = r.ret]
        /\ UNCHANGED <<arena, skl, latest, ninserts, callerVars>>

\* iter.Seek(key)
DoSeek ==
    \E key \in Keys :
        \E r \in {IterSeek(arena, skl, iter, key)} :
            /\ iter.skl
            /\ iter' = r.it
            /\ last' = [NoCall EXCEPT !.op = "Seek", !.key = key, !.ok = r.ret]
            /\ UNCHANGED <<arena, skl, latest, ninserts, callerVars>>

\* iter.seekle(key)
DoSeekle ==
    \E key \in Keys :
        /\ iter.skl
        /\ iter' = IterSeekle(arena, skl, iter, key)
        /\ last' = [NoCall EXCEPT !.op = "seekle", !.key = key]
        /\ UNCHANGED <<arena, skl, latest, ninserts, callerVars>>

\* iter.seeklt(key)
DoSeeklt ==
    \E key \in Keys :
        /\ iter.skl
        /\ iter' = IterSeeklt(arena, skl, iter, key)
        /\ last' = [NoCall EXCEPT !.op = "seeklt", !.key = key]
        /\ UNCHANGED <<arena, skl, latest, ninserts, callerVars>>

\* iter.Next()
DoNext ==
    \E r \in {IterNext(arena, iter)} :
        /\ iter.skl
        /\ iter' = r.it
        /\ last' = [NoCall EXCEPT !.op = "Next", !.ok = r.ret]
        /\ UNCHANGED <<arena, skl, latest, ninserts, callerVars>>

\* iter.Prev()
DoPrev ==
    \E r \in {IterPrev(arena, skl, iter)} :
        /\ iter.skl
        /\ iter' = r.it
        /\ last' = [NoCall EXCEPT !.op = "Prev", !.ok = r.ret]
        /\ UNCHANGED <<arena, skl, latest, ninserts, callerVars>>

\* iter.Close()
DoClose ==
    /\ iter.skl
    /\ skl' = DecRef(skl)
    /\ iter' = ClosedIterator
    /\ last' = [NoCall EXCEPT !.op = "Close"]
    /\ UNCHANGED <<arena, latest, ninserts, callerVars>>

Next ==
    \/ DoInsert
    \/ DoIterator
    \/ DoFirst
    \/ DoSeek
    \/ DoSeekle
    \/ DoSeeklt
    \/ DoNext
    \/ DoPrev
    \/ DoClose

Spec == Init /\ [][Next]_vars

\* ------------------------------------------------------------------------
\* One writer and one iterator used through the methods of the Iterator
\* interface and Prev only: no call of the unexported seekle and seeklt.
\* ------------------------------------------------------------------------

\* iter.Key()
DoKey ==
    /\ iter.skl
    /\ last' = [NoCall EXCEPT !.op = "Key", !.value = IterKey(arena, iter)]
    /\ UNCHANGED <<arena, skl, iter, latest, ninserts, callerVars>>

\* iter.Value()
DoValue ==
    /\ iter.skl
    /\ last' = [NoCall EXCEPT !.op = "Value", !.value = IterValue(arena, iter)]
    /\ UNCHANGED <<arena, skl, iter, latest, ninserts, callerVars>>

NextPublic ==
    \/ DoInsert
    \/ DoIterator
    \/ DoFirst
    \/ DoSeek
    \/ DoNext
    \/ DoPrev
    \/ DoKey
    \/ DoValue
    \/ DoClose

SpecPublic == Init /\ [][NextPublic]_vars

\* ------------------------------------------------------------------------
\* The levels a list draws: successive randLevel() calls on one seed, as
\* the inserts of new keys make them.
\* ------------------------------------------------------------------------

\* The randLevel() calls of one run.
MaxDraws == 40

\* The seeds the draws start from: those of the tests, and one whose first
\* 23 draws are all even.
LevelSeeds == Seeds \cup {1021507}

InitLevels ==
    \E s0 \in LevelSeeds :
        /\ arena = NewArena(ARENA_PAGESIZE)
        /\ skl = [seed |-> Bytes8(s0), head |-> ARENA_INVALID_ADDRESS,
                  refCount |-> 1]
        /\ iter = ClosedIterator
        /\ last = NoCall
        /\ latest = << >>
        /\ ninserts = 0
        /\ refs = << >>
        /\ allocs = << >>
        /\ blocks = << >>
        /\ serial = TRUE
        /\ ncalls = 0
        /\ calls = << >>

\* level := g.randLevel()
DoRandLevel ==
    \E r \in {randLevel(skl.seed)} :
        /\ ninserts < MaxDraws
        /\ ninserts' = ninserts + 1
        /\ skl' = [skl EXCEPT !.seed = r.seed]
        /\ last' = [NoCall EXCEPT !.op = "randLevel", !.ret = r.level,
                                  !.pre = [seed |-> skl.seed]]
        /\ UNCHANGED <<arena, iter, latest, callerVars>>

NextLevels == DoRandLevel

SpecLevels == InitLevels /\ [][NextLevels]_vars

RECURSIVE chainFrom(_, _, _)
\* The offsets of the nodes after ptr in the level-i chain, in chain order.
chainFrom(a, ptr, i) ==
    With(getNode(a, ptr).nexts[i], LAMBDA nxt :
        IF nxt = ARENA_INVALID_ADDRESS THEN << >>
        ELSE <<nxt>> \o chainFrom(a, nxt, i))

\* The nodes linked at level 0, the head excluded.
level0(a, g) == chainFrom(a, g.head, 0)

\* The key bytes of the node at ptr.
keyOf(a, ptr) == View(a, getNode(a, ptr).keyPtr)

\* The set of the offsets linked at level 0, the head excluded.
level0Set(a, g) == {level0(a, g)[j] : j \in DOMAIN level0(a, g)}

\* ------------------------------------------------------------------------
\* Concurrent callers of one list, step by step: Insert and seeklt cut at
\* their loads and stores of the list's memory.
\* ------------------------------------------------------------------------

\* The keys already stored, in the order of their Insert calls, when the
\* concurrent callers begin.
Prefills == {<< >>, <<Slice(<<2>>)>>, <<Slice(<<2>>), Slice(<<4>>)>>}

\* The keys the concurrent writers insert, and the value they give.
LinkKeys == {Slice(<<1>>), Slice(<<2>>), Slice(<<3>>)}

LinkValue == Slice(<<11>>)

\* The keys the concurrent reader seeks.
SeekKeys == {Slice(<<2>>), Slice(<<4>>), Slice(<<5>>)}

RECURSIVE prefilled(_, _, _)
\* The arena and the list after g.Insert(key, LinkValue) for the keys of
\* ks from the j-th on, one call after the other.
prefilled(n, ks, j) ==
    IF j > Len(ks) THEN n
    ELSE With(Insert(n.arena, n.skl, ks[j], LinkValue), LAMBDA r :
             prefilled([arena |-> r.arena, skl |-> r.skl], ks, j + 1))

\* var log [MSKIP_MAX_LEVEL]uint32
ZeroLog == [i \in 0..(MSKIP_MAX_LEVEL - 1) |-> ARENA_INVALID_ADDRESS]

\* A caller with no call in progress. In a call: op is the call, pc the
\* step it is at, key and value its arguments; ptr, i and log are the
\* locals of seeklt (for Insert, i is then the level of the linking loop);
\* node, level and keyPtr are the locals of insertNext; ret is what the
\* call returned once pc is "done"; seen is, for a seeklt, the sets of keys
\* level 0 held at some moment of the call.
NoStep == [pc |-> "idle", op |-> "none", key |-> NilSlice, value |-> NilSlice,
           ptr |-> ARENA_INVALID_ADDRESS, i |-> 0, log |-> ZeroLog,
           node |-> ARENA_INVALID_ADDRESS, level |-> 0,
           keyPtr |-> InvalidHandle, ret |-> ARENA_INVALID_ADDRESS,
           seen |-> {}]

\* The writers and the readers of a run.
Writers == {c \in DOMAIN calls.of : calls.of[c].role = "writer"}

Readers == {c \in DOMAIN calls.of : calls.of[c].role = "reader"}

\* The callers inside a call.
inFlight == {c \in DOMAIN calls.of : calls.of[c].pc \notin {"idle", "done"}}

\* The state the callers start from: a list holding the keys of ks on a
\* fresh one-page arena, the callers cs idle, each with its role; ordered
\* tells whether a reader observes the writer's stores in program order.
InitCalls(ks, roles, ordered) ==
    \E n0 \in {NewSkipList(NewArena(ARENA_PAGESIZE), Bytes8(12345))} :
    \E n \in {prefilled([arena |-> n0.arena, skl |-> n0.skl], ks, 1)} :
        /\ arena = n.arena
        /\ skl = n.skl
        /\ iter = ClosedIterator
        /\ last = NoCall
        /\ latest = << >>
        /\ ninserts = 0
        /\ refs = << >>
        /\ allocs = << >>
        /\ blocks = << >>
        /\ serial = TRUE
        /\ ncalls = 0
        /\ calls = [of |-> [c \in DOMAIN roles |->
                               NoStep @@ [role |-> roles[c]]],
                    ordered |-> ordered,
                    before |-> n.arena]

\* The record a load at ptr finds in the memory m: where nothing has been
\* stored, zero bytes.
nodeAt(m, ptr) ==
    IF ptr \in DOMAIN m.nodes THEN m.nodes[ptr] ELSE ZeroNode(MSKIP_MAX_LEVEL)

\* What a load by caller c may observe. The loads and stores of the list
\* are plain: a reader whose loads are not ordered after the stores of the
\* Insert in progress may find, at each location, the value from before
\* that Insert or the one stored since.
views(c) ==
    IF calls.of[c].role = "reader" /\ ~calls.ordered
       /\ \E w \in Writers : w \in inFlight
    THEN {arena, calls.before}
    ELSE {arena}

\* The keys of the nodes linked at level 0.
keysNow(a) == {keyOf(a, ptr) : ptr \in level0Set(a, skl)}

\* The callers after a step that leaves caller c with the record rec and
\* the memory a: every seeklt in progress has seen the keys a holds.
stepped(c, rec, a) ==
    [calls EXCEPT !.of =
        [d \in DOMAIN calls.of |->
            With(IF d = c THEN rec ELSE calls.of[d], LAMBDA r :
                IF r.op = "seeklt" /\ r.pc = "seek"
                THEN [r EXCEPT !.seen = r.seen \cup {keysNow(a)}]
                ELSE r)]]

\* g.Insert(key, value) begins: seeklt starts at the head, on the top
\* level.
BeginInsert(c) ==
    \E key \in LinkKeys :
        /\ c \in Writers
        /\ calls.of[c].pc = "idle"
        /\ serial' = (serial /\ inFlight \cap Writers = {})
        /\ calls' = [stepped(c, [calls.of[c] EXCEPT
                                    !.pc = "seek", !.op = "Insert",
                                    !.key = key, !.value = LinkValue,
                                    !.ptr = skl.head,
                                    !.i = MSKIP_MAX_LEVEL - 1,
                                    !.log = ZeroLog], arena)
                     EXCEPT !.before = arena]
        /\ UNCHANGED <<arena, skl, listVars, refs, allocs, blocks, ncalls>>

\* g.seeklt(key, nil) begins: the dummy log is used.
BeginSeeklt(c) ==
    \E key \in SeekKeys :
        /\ c \in Readers
        /\ calls.of[c].pc = "idle"
        /\ calls' = stepped(c, [calls.of[c] EXCEPT
                                  !.pc = "seek", !.op = "seeklt",
                                  !.key = key,
                                  !.ptr = skl.head,
                                  !.i = MSKIP_MAX_LEVEL - 1,
                                  !.log = ZeroLog,
                                  !.seen = IF \E w \in Writers : w \in inFlight
                                           THEN {keysNow(calls.before)}
                                           ELSE {}], arena)
        /\ UNCHANGED <<arena, skl, listVars, refs, allocs, blocks, serial,
                       ncalls>>

\* The caller after seeklt's loop has left level i with ptr: log[i] is
\* written; below level 0 seeklt returns, to insertNext for an Insert.
levelDone(rec) ==
    IF rec.i > 0
    THEN [rec EXCEPT !.log[rec.i] = rec.ptr, !.i = rec.i - 1]
    ELSE [rec EXCEPT !.log[rec.i] = rec.ptr,
                     !.pc = IF rec.op = "Insert" THEN "insertNext" ELSE "done",
                     !.ret = IF rec.op = "Insert" THEN rec.ret ELSE rec.ptr]

\* One round of seeklt's inner loop, given the successor loaded and the
\* key bytes found for it.
seekRound(rec, nxt, nextKey) ==
    IF nxt = ARENA_INVALID_ADDRESS \/ compare(rec.key, nextKey) <= 0
    THEN levelDone(rec)
    ELSE [rec EXCEPT !.ptr = nxt]

\* One round of seeklt's inner loop: the loads of ptr's link at level i,
\* of the successor's key handle and of its key bytes, then the test.
SeekStep(c) ==
    /\ calls.of[c].pc = "seek"
    /\ \E m1 \in views(c), m2 \in views(c), m3 \in views(c) :
        \E nxt \in {nodeAt(m1, calls.of[c].ptr).nexts[calls.of[c].i]} :
            /\ calls' = stepped(c, seekRound(calls.of[c], nxt,
                                             View(m3, nodeAt(m2, nxt).keyPtr)),
                                arena)
            /\ UNCHANGED <<arena, skl, listVars, refs, allocs, blocks, serial,
                           ncalls>>

\* insertNext up to the node's allocation: a key found after log[0] is
\* updated in place and the call returns; otherwise the level is drawn and
\* the node and its key are allocated together.
InsertNextBegin(c) ==
    /\ calls.of[c].pc = "insertNext"
    /\ \E rec \in {calls.of[c]} :
       \E nxt \in {getNode(arena, rec.log[0]).nexts[0]} :
        /\ IF nxt # ARENA_INVALID_ADDRESS
              /\ compare(rec.key, View(arena, getNode(arena, nxt).keyPtr)) = 0
           THEN \E r \in {insertExisting(arena, skl, nxt, rec.value)} :
                   /\ arena' = r.arena
                   /\ skl' = r.skl
                   /\ calls' = stepped(c, [rec EXCEPT !.pc = "done",
                                                      !.ret = r.ret], r.arena)
           ELSE \E rl \in {randLevel(skl.seed)} :
                \E am \in {AllocateMultiple(arena,
                              <<U64(sizeNode(rl.level)), U64(len(rec.key))>>)} :
                   /\ skl' = [skl EXCEPT !.seed = rl.seed]
                   /\ arena' = IF am.ok
                               THEN putNode(am.arena, Offset(am.slots[1]),
                                            ZeroNode(rl.level))
                               ELSE am.arena
                   /\ calls' = stepped(c,
                        IF am.ok
                        THEN [rec EXCEPT !.pc = "level",
                                         !.node = Offset(am.slots[1]),
                                         !.keyPtr = am.slots[2],
                                         !.level = rl.level]
                        ELSE [rec EXCEPT !.pc = "done",
                                         !.ret = ARENA_INVALID_ADDRESS],
                        arena')
        /\ UNCHANGED <<listVars, refs, allocs, blocks, serial, ncalls>>

\* A store of caller c that leaves the memory a and takes c to pc.
store(c, a, pc) ==
    /\ arena' = a
    /\ calls' = stepped(c, [calls.of[c] EXCEPT !.pc = pc], a)
    /\ UNCHANGED <<skl, listVars, refs, allocs, blocks, serial, ncalls>>

\* node.level = level
NodeLevel(c) ==
    /\ calls.of[c].pc = "level"
    /\ store(c, putNode(arena, calls.of[c].node,
                        [getNode(arena, calls.of[c].node) EXCEPT
                            !.level = calls.of[c].level]), "keyPtr")

\* node.keyPtr = newKeySize
NodeKeyPtr(c) ==
    /\ calls.of[c].pc = "keyPtr"
    /\ store(c, putNode(arena, calls.of[c].node,
                        [getNode(arena, calls.of[c].node) EXCEPT
                            !.keyPtr = calls.of[c].keyPtr]), "key")

\* copy(g.arena.View(node.keyPtr), key)
NodeKey(c) ==
    /\ calls.of[c].pc = "key"
    /\ store(c, CopyToView(arena, getNode(arena, calls.of[c].node).keyPtr,
                           calls.of[c].key), "value")

\* The value: nil marks the node deleted; any other value is allocated,
\* copied and stored in node.valuePtr, and the call returns the invalid
\* offset when the allocation fails.
NodeValue(c) ==
    \E rec \in {calls.of[c]} :
        /\ rec.pc = "value"
        /\ IF rec.value.nil
           THEN /\ arena' = setValuePtr(arena, rec.node, InvalidHandle)
                /\ calls' = stepped(c, [rec EXCEPT !.pc = "load", !.i = 0],
                                    arena')
           ELSE \E al \in {Allocate(arena, U64(len(rec.value)))} :
                   IF al.addr = InvalidHandle
                   THEN /\ arena' = al.arena
                        /\ calls' = stepped(c,
                              [rec EXCEPT !.pc = "done",
                                          !.ret = ARENA_INVALID_ADDRESS],
                              arena')
                   ELSE /\ arena' = setValuePtr(
                                       CopyToView(al.arena, al.addr, rec.value),
                                       rec.node, al.addr)
                        /\ calls' = stepped(c,
                              [rec EXCEPT !.pc = "load", !.i = 0], arena')
        /\ UNCHANGED <<skl, listVars, refs, allocs, blocks, serial, ncalls>>

\* The first store of a round of the linking loop with the load left out:
\* the new node's link stays 0.
linkLoadSkipped(a, rec) == a

\* node.nexts[i] = g.getNode(log[i]).nexts[i]
linkLoad(a, rec) ==
    putNode(a, rec.node,
            [getNode(a, rec.node) EXCEPT
                !.nexts[rec.i] = getNode(a, rec.log[rec.i]).nexts[rec.i]])

\* The second store of a round of the linking loop made to the head
\* instead of log[i].
linkStoreAtHead(a, rec) ==
    putNode(a, skl.head,
            [getNode(a, skl.head) EXCEPT !.nexts[rec.i] = rec.node])

\* g.getNode(log[i]).nexts[i] = marena.Offset(newNodeSize)
linkStore(a, rec) ==
    putNode(a, rec.log[rec.i],
            [getNode(a, rec.log[rec.i]) EXCEPT !.nexts[rec.i] = rec.node])

\* The linking loop, first store of round i.
LinkLoad(c) ==
    /\ calls.of[c].pc = "load"
    /\ store(c, linkLoad(arena, calls.of[c]), "store")

\* The linking loop, second store of round i; after the last round
\* insertNext returns the node.
LinkStore(c) ==
    /\ calls.of[c].pc = "store"
    /\ \E rec \in {calls.of[c]} :
       \E a \in {linkStore(arena, rec)} :
        /\ arena' = a
        /\ calls' = stepped(c,
              IF rec.i + 1 < rec.level
              THEN [rec EXCEPT !.pc = "load", !.i = rec.i + 1]
              ELSE [rec EXCEPT !.pc = "done", !.i = rec.i + 1,
                               !.ret = rec.node], a)
        /\ UNCHANGED <<skl, listVars, refs, allocs, blocks, serial, ncalls>>

\* One writer and one reader: the reader's seeklt runs while the writer's
\* Insert does.
InitReader ==
    \E ks \in Prefills, ordered \in BOOLEAN :
        InitCalls(ks, [w |-> "writer", r |-> "reader"], ordered)

NextReader ==
    \E c \in DOMAIN calls.of :
        \/ BeginInsert(c)
        \/ BeginSeeklt(c)
        \/ SeekStep(c)
        \/ InsertNextBegin(c)
        \/ NodeLevel(c)
        \/ NodeKeyPtr(c)
        \/ NodeKey(c)
        \/ NodeValue(c)
        \/ LinkLoad(c)
        \/ LinkStore(c)

SpecReader == InitReader /\ [][NextReader]_vars

\* Two writers with nothing to serialize them.
InitWriters ==
    \E ks \in Prefills :
        InitCalls(ks, [w1 |-> "writer", w2 |-> "writer"], TRUE)

NextWriters ==
    \E c \in DOMAIN calls.of :
        \/ BeginInsert(c)
        \/ SeekStep(c)
        \/ InsertNextBegin(c)
        \/ NodeLevel(c)
        \/ NodeKeyPtr(c)
        \/ NodeKey(c)
        \/ NodeValue(c)
        \/ LinkLoad(c)
        \/ LinkStore(c)

SpecWriters == InitWriters /\ [][NextWriters]_vars

\* ------------------------------------------------------------------------
\* Concurrent Iterator() and Close() callers on one list.  Iterator() is
\* IncRef (one atomic add), then the iterator is taken from the pool and
\* set up; Close() is DecRef (one atomic add), then the iterator is cleared
\* and put back.  Each caller closes the iterator it obtained once, then
\* may obtain another.
\* ------------------------------------------------------------------------

RefCallers == {1, 2, 3}

\* The iterators one caller obtains in a run.
MaxRounds == 2

\* The list the callers share: NewSkipList on a fresh arena.
RefList == NewSkipList(NewArena(ARENA_PAGESIZE), Bytes8(42))

InitRef ==
    /\ arena = RefList.arena
    /\ skl = RefList.skl
    /\ iter = ClosedIterator
    /\ last = NoCall
    /\ latest = << >>
    /\ ninserts = 0
    /\ refs = [c \in RefCallers |->
                 [pc |-> "idle", it |-> ClosedIterator, rounds |-> 0]]
    /\ allocs = << >>
    /\ blocks = << >>
    /\ serial = TRUE
    /\ ncalls = 0
    /\ calls = << >>

\* Iterator(), first statement: g.IncRef().
IteratorIncRef(c) ==
    /\ refs[c].pc = "idle"
    /\ refs[c].rounds < MaxRounds
    /\ skl' = IncRef(skl)
    /\ refs' = [refs EXCEPT ![c].pc = "incremented",
                            ![c].rounds = refs[c].rounds + 1]
    /\ UNCHANGED <<calls, arena, listVars, allocs, blocks, serial, ncalls>>

\* Iterator(), the rest: the pooled iterator gets the list and the invalid
\* offset and is returned.
IteratorReturn(c) ==
    /\ refs[c].pc = "incremented"
    /\ refs' = [refs EXCEPT ![c].pc = "open", ![c].it = NewIterator]
    /\ UNCHANGED <<calls, arena, skl, listVars, allocs, blocks, serial, ncalls>>

\* Close(), first statement: g.skl.DecRef().
CloseDecRef(c) ==
    /\ refs[c].pc = "open"
    /\ skl' = DecRef(skl)
    /\ refs' = [refs EXCEPT ![c].pc = "decremented"]
    /\ UNCHANGED <<calls, arena, listVars, allocs, blocks, serial, ncalls>>

\* Close(), the rest: the fields are cleared and the iterator goes back to
\* the pool.
CloseReturn(c) ==
    /\ refs[c].pc = "decremented"
    /\ refs' = [refs EXCEPT ![c].pc = "idle", ![c].it = ClosedIterator]
    /\ UNCHANGED <<calls, arena, skl, listVars, allocs, blocks, serial, ncalls>>

NextRef ==
    \E c \in RefCallers :
        \/ IteratorIncRef(c)
        \/ IteratorReturn(c)
        \/ CloseDecRef(c)
        \/ CloseReturn(c)

SpecRef == InitRef /\ [][NextRef]_vars

\* ------------------------------------------------------------------------
\* Concurrent Allocate and AllocateMultiple callers on one arena.  A call
\* is two steps: the size checks with the atomic load of the cursor, then
\* the atomic add with what follows it.
\* ------------------------------------------------------------------------

ArenaCallers == {1, 2}

\* The arena calls of one run.
MaxCalls == 3

\* The capacities asked of NewArena: one page, and one byte more.
ArenaRequests == {ARENA_PAGESIZE, ARENA_PAGESIZE + 1}

\* The sizes handed to Allocate: empty, unaligned, all of a one-page arena
\* but 16 bytes, and one above ARENA_MAX_ALLOC_SIZE.
AllocSizes ==
    {U64(0), U64(13), U64(ARENA_PAGESIZE - ARENA_MIN_ADDRESS - 16), W(1, 0)}

\* The slots handed to AllocateMultiple: the three blocks of the tests, a
\* slot above ARENA_MAX_ALLOC_SIZE, and a total larger than a page.
AllocSlots ==
    {<<U64(50), U64(200), U64(300)>>,
     <<U64(13), W(1, 0)>>,
     <<U64(ARENA_PAGESIZE - ARENA_MIN_ADDRESS), U64(8)>>}

\* A caller with no call in progress: op, slots, ok and out tell its last
\* call, the slots it passed, what the call returned (for Allocate, whether
\* the address is valid) and what the slots held (for Allocate, the address
\* returned) when it did.
NoAlloc == [pc |-> "idle", op |-> "none", slots |-> << >>,
            ok |-> FALSE, out |-> << >>]

InitArena ==
    \E req \in ArenaRequests :
        /\ arena = NewArena(req)
        /\ skl = [seed |-> Bytes8(0), head |-> ARENA_INVALID_ADDRESS,
                  refCount |-> 0]
        /\ iter = ClosedIterator
        /\ last = NoCall
        /\ latest = << >>
        /\ ninserts = 0
        /\ refs = << >>
        /\ allocs = [c \in ArenaCallers |-> NoAlloc]
        /\ blocks = << >>
        /\ serial = TRUE
        /\ ncalls = 0
        /\ calls = << >>

\* A call begins: it counts, and the run stops being serial when another
\* caller is between its load and its add.
beginCall(c) ==
    /\ allocs[c].pc = "idle"
    /\ ncalls < MaxCalls
    /\ ncalls' = ncalls + 1
    /\ serial' = (serial /\ \A d \in ArenaCallers : allocs[d].pc = "idle")

\* The blocks a call hands out: each address with the size asked for.
handedOut(slots, out) ==
    [j \in DOMAIN slots |-> [addr |-> out[j], size |-> slots[j]]]

\* Allocate(size) up to the atomic load: the call returns the invalid
\* address, or goes on to the add.
AllocateLoad(c) ==
    \E size \in AllocSizes :
        /\ beginCall(c)
        /\ allocs' = [allocs EXCEPT ![c] =
              IF AllocatePasses(arena, size)
              THEN [pc |-> "add", op |-> "Allocate", slots |-> <<size>>,
                    ok |-> FALSE, out |-> << >>]
              ELSE [pc |-> "idle", op |-> "Allocate", slots |-> <<size>>,
                    ok |-> FALSE, out |-> <<InvalidHandle>>]]
        /\ UNCHANGED <<calls, arena, skl, listVars, refs, blocks>>

\* Allocate(size) from the atomic add to the return.
AllocateReturn(c) ==
    /\ allocs[c].pc = "add"
    /\ allocs[c].op = "Allocate"
    /\ \E r \in {AllocateAdd(arena, allocs[c].slots[1])} :
          /\ arena' = r.arena
          /\ allocs' = [allocs EXCEPT ![c].pc = "idle",
                                      ![c].ok = (r.addr # InvalidHandle),
                                      ![c].out = <<r.addr>>]
          /\ blocks' = IF r.addr # InvalidHandle
                       THEN blocks \o handedOut(allocs[c].slots, <<r.addr>>)
                       ELSE blocks
    /\ UNCHANGED <<calls, skl, listVars, refs, serial, ncalls>>

\* AllocateMultiple(slots...) up to the atomic load.
AllocateMultipleLoad(c) ==
    \E slots \in AllocSlots :
        /\ beginCall(c)
        /\ allocs' = [allocs EXCEPT ![c] =
              IF AllocateMultiplePasses(arena, slots)
              THEN [pc |-> "add", op |-> "AllocateMultiple", slots |-> slots,
                    ok |-> FALSE, out |-> << >>]
              ELSE [pc |-> "idle", op |-> "AllocateMultiple", slots |-> slots,
                    ok |-> FALSE, out |-> slots]]
        /\ UNCHANGED <<calls, arena, skl, listVars, refs, blocks>>

\* AllocateMultiple(slots...) from the atomic add to the return.
AllocateMultipleReturn(c) ==
    /\ allocs[c].pc = "add"
    /\ allocs[c].op = "AllocateMultiple"
    /\ \E r \in {AllocateMultipleAdd(arena, allocs[c].slots)} :
          /\ arena' = r.arena
          /\ allocs' = [allocs EXCEPT ![c].pc = "idle",
                                      ![c].ok = r.ok,
                                      ![c].out = r.slots]
          /\ blocks' = IF r.ok
                       THEN blocks \o handedOut(allocs[c].slots, r.slots)
                       ELSE blocks
    /\ UNCHANGED <<calls, skl, listVars, refs, serial, ncalls>>

NextArena ==
    \E c \in ArenaCallers :
        \/ AllocateLoad(c)
        \/ AllocateReturn(c)
        \/ AllocateMultipleLoad(c)
        \/ AllocateMultipleReturn(c)

SpecArena == InitArena /\ [][NextArena]_vars

\* ------------------------------------------------------------------------
\* One owner of an arena, with nobody else calling: it allocates, writes
\* through the views of its blocks, views handles of its own making, and
\* resets the arena.  The arena it starts with is fresh, or was left
\* overshot by two overlapping calls made before.
\* ------------------------------------------------------------------------

\* The sizes the owner asks of Allocate: an unaligned one, and all that a
\* fresh one-page arena has.
OwnerSizes == {U64(13), U64(ARENA_PAGESIZE - ARENA_MIN_ADDRESS)}

\* The bytes the owner writes into a block.
OwnerBytes == Slice(<<171, 205>>)

\* A one-page arena after Allocate(13) and Allocate(all of the page) have
\* overlapped: both passed the load at cursor 128, then both added; the
\* first got its block, the second was refused and left the cursor past
\* the end of the buffer.
OvershotArena ==
    AllocateAdd(AllocateAdd(NewArena(ARENA_PAGESIZE), U64(13)).arena,
                U64(ARENA_PAGESIZE - ARENA_MIN_ADDRESS)).arena

\* The handles the owner hands to View on an arena of length n: around
\* offset 128, around the end of the buffer, its first block, and one far
\* outside.
ViewHandles(n) ==
    {W(0, 0), W(0, 8), W(127, 1), W(127, 0), W(128, 0), W(128, 2), W(128, 13),
     W(n - 4, 4), W(n - 4, 5), W(n - 1, 1), W(n, 0), W(n, 1),
     W(1073741823, 1073741823)}

InitOwner ==
    \E start \in {[arena |-> NewArena(ARENA_PAGESIZE), blocks |-> << >>],
                   [arena |-> OvershotArena,
                    blocks |-> <<[addr |-> W(ARENA_MIN_ADDRESS, 13),
                                  size |-> U64(13)]>>]} :
        /\ arena = start.arena
        /\ blocks = start.blocks
        /\ skl = [seed |-> Bytes8(0), head |-> ARENA_INVALID_ADDRESS,
                  refCount |-> 0]
        /\ iter = ClosedIterator
        /\ last = NoCall
        /\ latest = << >>
        /\ ninserts = 0
        /\ refs = << >>
        /\ allocs = << >>
        /\ serial = TRUE
        /\ ncalls = 0
        /\ calls = << >>

\* addr := arena.Allocate(size)
OwnerAllocate ==
    \E size \in OwnerSizes :
        \E r \in {Allocate(arena, size)} :
            /\ ncalls < MaxCalls
            /\ ncalls' = ncalls + 1
            /\ arena' = r.arena
            /\ blocks' = IF r.addr # InvalidHandle
                         THEN Append(blocks, [addr |-> r.addr, size |-> size])
                         ELSE blocks
            /\ last' = [NoCall EXCEPT !.op = "Allocate", !.key = size,
                                      !.ret = r.addr,
                                      !.ok = (r.addr # InvalidHandle),
                                      !.pre = [arena |-> arena, op |-> last.op]]
            /\ UNCHANGED <<calls, skl, iter, latest, ninserts, refs, allocs, serial>>

\* copy(arena.View(addr), bytes) on a block the owner holds.
OwnerWrite ==
    \E j \in DOMAIN blocks :
        /\ arena' = CopyToView(arena, blocks[j].addr, OwnerBytes)
        /\ arena' # arena
        /\ last' = [NoCall EXCEPT !.op = "Write"]
        /\ UNCHANGED <<calls, skl, iter, latest, ninserts, refs, allocs, blocks,
                       serial, ncalls>>

\* arena.View(address)
OwnerView ==
    \E address \in ViewHandles(arena.size) :
        /\ last' = [NoCall EXCEPT !.op = "View", !.ret = address,
                                  !.value = View(arena, address),
                                  !.pre = [arena |-> arena, op |-> last.op]]
        /\ UNCHANGED <<calls, arena, skl, iter, latest, ninserts, refs, allocs,
                       blocks, serial, ncalls>>

\* arena.Reset(): the handles the owner held are gone with it.
OwnerReset ==
    /\ last.op # "Reset"
    /\ arena' = Reset(arena)
    /\ blocks' = << >>
    /\ last' = [NoCall EXCEPT !.op = "Reset",
                              !.pre = [arena |-> arena, op |-> last.op]]
    /\ UNCHANGED <<calls, skl, iter, latest, ninserts, refs, allocs, serial, ncalls>>

NextOwner ==
    \/ OwnerAllocate
    \/ OwnerWrite
    \/ OwnerView
    \/ OwnerReset

SpecOwner == InitOwner /\ [][NextOwner]_vars

\* ------------------------------------------------------------------------
\* What the claims speak of: the level-0 chain, the traversals a caller
\* runs, the entries the Insert calls made so far amount to.
\* ------------------------------------------------------------------------

\* The offset of the level-0 node whose key bytes are key, or the invalid
\* offset when no node holds key.
nodeOf(a, g, key) ==
    LET ps == {ptr \in {level0(a, g)[j] : j \in DOMAIN level0(a, g)} :
                  keyOf(a, ptr).data = key.data}
    IN  IF ps = {} THEN ARENA_INVALID_ADDRESS ELSE CHOOSE ptr \in ps : TRUE

RECURSIVE forwardFrom(_, _)
\* for ; it.Valid(); it.Next() { visit it.Key(), it.Value() } from the
\* position it: the <<key, value>> pairs visited, in order.
forwardFrom(a, it) ==
    IF ~IterValid(it) THEN << >>
    ELSE <<(<<IterKey(a, it), IterValue(a, it)>>)>>
         \o forwardFrom(a, IterNext(a, it).it)

\* The forward traversal: it.First(), then the loop above.
forward(a, g) == forwardFrom(a, IterFirst(a, g, NewIterator).it)

RECURSIVE sorted(_)
\* The keys of the set ks as a sequence increasing under compare.
sorted(ks) ==
    IF ks = {} THEN << >>
    ELSE LET least == CHOOSE k \in ks : \A j \in ks : compare(k, j) <= 0
         IN  <<least>> \o sorted(ks \ {least})

\* The keys whose most recent successful Insert had a non-nil value.
liveKeys == {k \in DOMAIN latest : ~latest[k].nil}

\* The keys whose most recent successful Insert had a nil value.
deletedKeys == {k \in DOMAIN latest : latest[k].nil}

\* The live keys in increasing order, each with its latest value.
liveEntries ==
    [j \in DOMAIN sorted(liveKeys) |->
        <<sorted(liveKeys)[j], latest[sorted(liveKeys)[j]]>>]

\* ------------------------------------------------------------------------
\* The claims
\* ------------------------------------------------------------------------

\* C1: after any sequence of Insert calls by the single writer, the forward
\* traversal First(); while Valid(): Next() visits exactly the keys whose
\* most recent successful Insert had a non-nil value, each once, in strictly
\* increasing comparator order, and Key()/Value() at each stop are that key
\* and its most recently inserted value.
C1_ForwardTraversal == forward(arena, skl) = liveEntries

\* C1's case: two live keys and a deleted one between them, the iterator
\* having walked with Next to the last live key.
C1_Witness ==
    /\ liveKeys = {Slice(<<1>>), Slice(<<2>>)}
    /\ deletedKeys = {Slice(<<1, 2>>)}
    /\ last.op = "Next" /\ last.ok
    /\ IterKey(arena, iter) = Slice(<<2>>)

\* The last call was an Insert.
wasInsert == last.op = "Insert"

\* The node that held the last Insert's key before the call (the invalid
\* offset when none did).
nodeBefore == nodeOf(last.pre.arena, last.pre.skl, last.key)

\* The value bytes of the node at ptr.
valueOf(a, ptr) == View(a, getNode(a, ptr).valuePtr)

\* C2: inserting (K, V1) and later (K, V2) with V2 non-nil creates no second
\* node for K: the second call returns the offset of the existing node, the
\* nodes linked at level 0 are those linked before, the node's key handle is
\* unchanged and its key bytes equal K, and the node's value is V2.
C2_UpdateInPlace ==
    (wasInsert /\ last.ok /\ ~last.value.nil
        /\ last.key \in DOMAIN last.pre.latest) =>
            /\ nodeBefore # ARENA_INVALID_ADDRESS
            /\ last.ret = nodeBefore
            /\ level0(arena, skl) = level0(last.pre.arena, last.pre.skl)
            /\ getNode(arena, nodeBefore).keyPtr
                   = getNode(last.pre.arena, nodeBefore).keyPtr
            /\ keyOf(arena, nodeBefore) = last.key
            /\ compare(keyOf(arena, nodeBefore), last.key) = 0
            /\ getNode(arena, nodeBefore).valuePtr # InvalidHandle
            /\ valueOf(arena, nodeBefore) = last.value

\* C2's case: the key held the live value V1 = <<11>> of the first call,
\* another key is in the list, and the call just made gave the key V2.
C2_Witness ==
    /\ wasInsert /\ last.ok /\ ~last.value.nil
    /\ last.key \in DOMAIN last.pre.latest
    /\ last.pre.latest[last.key] = Slice(<<11>>)
    /\ last.value # Slice(<<11>>)
    /\ Len(level0(arena, skl)) = 2

\* C3: after Insert(K, V) followed by Insert(K, nil), forward iteration
\* never stops on K, yet K's node is still linked at level 0 with an invalid
\* value handle; a later Insert(K, V') with V' non-nil updates that same
\* node (same offset, no additional node) and forward iteration yields K
\* with V' again.
C3_Tombstone ==
    /\ \A k \in deletedKeys :
          /\ nodeOf(arena, skl, k) # ARENA_INVALID_ADDRESS
          /\ getNode(arena, nodeOf(arena, skl, k)).valuePtr = InvalidHandle
          /\ \A j \in DOMAIN forward(arena, skl) :
                forward(arena, skl)[j][1] # k
    /\ (wasInsert /\ last.ok /\ ~last.value.nil
           /\ last.key \in DOMAIN last.pre.latest
           /\ last.pre.latest[last.key].nil) =>
              /\ last.ret = nodeBefore
              /\ nodeBefore = nodeOf(arena, skl, last.key)
              /\ Len(level0(arena, skl))
                     = Len(level0(last.pre.arena, last.pre.skl))
              /\ \E j \in DOMAIN forward(arena, skl) :
                    forward(arena, skl)[j] = <<last.key, last.value>>

\* C3's case: three calls on one key: a value (byte 11 is in the buffer),
\* then nil, then a value again.
C3_Witness ==
    /\ wasInsert /\ last.ok /\ ~last.value.nil
    /\ ninserts = 3
    /\ DOMAIN latest = {last.key}
    /\ last.pre.latest[last.key].nil
    /\ \E i \in DOMAIN arena.buffer : arena.buffer[i] = 11

\* The bytes the arena must still have for the last Insert's allocations:
\* node and key when the key is new, the value when it is not nil.
neededBefore ==
    (IF nodeBefore = ARENA_INVALID_ADDRESS
     THEN align(sizeNode(randLevel(last.pre.skl.seed).level))
          + align(len(last.key))
     ELSE 0)
    + (IF last.value.nil THEN 0 ELSE align(len(last.value)))

\* C7: if any arena allocation made during Insert(K, V) fails, Insert
\* returns false and the list is left as before the call: the head and
\* every node's forward links at every level, key handle and value handle
\* are unchanged, so traversals return the same entries as before.
C7_FailedInsertFrame ==
    wasInsert =>
        /\ last.ok <=> (neededBefore <= Remaining(last.pre.arena))
        /\ ~last.ok =>
              /\ skl.head = last.pre.skl.head
              /\ level0(arena, skl) = level0(last.pre.arena, last.pre.skl)
              /\ \A ptr \in DOMAIN last.pre.arena.nodes :
                    getNode(arena, ptr) = getNode(last.pre.arena, ptr)
              /\ forward(arena, skl) = forward(last.pre.arena, last.pre.skl)
              /\ latest = last.pre.latest

\* C7's case: a new key whose node and key were allocated (the cursor
\* moved) and whose value allocation then failed, on a list that holds a
\* live key.
C7_Witness ==
    /\ wasInsert /\ ~last.ok
    /\ nodeBefore = ARENA_INVALID_ADDRESS
    /\ Remaining(arena) < Remaining(last.pre.arena)
    /\ liveKeys # {}

\* The level-0 node with the smallest key >= key, or the invalid offset
\* when every stored key is smaller.
lowerBound(a, g, key) ==
    LET ge == {ptr \in level0Set(a, g) : compare(keyOf(a, ptr), key) >= 0}
    IN  IF ge = {} THEN ARENA_INVALID_ADDRESS
        ELSE CHOOSE ptr \in ge :
                 \A q \in ge : compare(keyOf(a, ptr), keyOf(a, q)) <= 0

\* C4: after Seek(K) the iterator is on the node holding the smallest key
\* >= K among the keys stored in the list if there is such a key, and is
\* invalid otherwise; the boolean Seek returned equals Valid().
C4_SeekLowerBound ==
    last.op = "Seek" =>
        /\ iter.current = lowerBound(arena, skl, last.key)
        /\ last.ok = IterValid(iter)

\* C5: in every state the iterator reaches through Iterator, First, Seek,
\* seekle, seeklt, Next and Prev, Valid() is true if and only if the current
\* offset is neither the invalid offset nor the offset of the head.
C5_ValidIffDataNode ==
    iter.skl =>
        (IterValid(iter) <=>
            iter.current \notin {ARENA_INVALID_ADDRESS, skl.head})

RECURSIVE backwardFrom(_, _, _)
\* for it.Prev() { visit } from the position it: the offsets Prev stops
\* on, in order, until it returns false.
backwardFrom(a, g, it) ==
    With(IterPrev(a, g, it), LAMBDA r :
        IF r.ret THEN <<r.it.current>> \o backwardFrom(a, g, r.it)
        ELSE << >>)

RECURSIVE backwardEnd(_, _, _)
\* The iterator the loop above leaves behind.
backwardEnd(a, g, it) ==
    With(IterPrev(a, g, it), LAMBDA r :
        IF r.ret THEN backwardEnd(a, g, r.it) ELSE r.it)

\* C6: from any valid iterator position, repeated Prev() visits every node
\* linked at level 0 whose key is smaller than the starting key, tombstones
\* included, in strictly decreasing comparator order; Prev() on the node
\* with the smallest key returns false and leaves the iterator invalid.
C6_BackwardTraversal ==
    (iter.skl /\ IterValid(iter)) =>
        With(backwardFrom(arena, skl, iter), LAMBDA visited :
            /\ {visited[j] : j \in DOMAIN visited}
                   = {q \in level0Set(arena, skl) :
                         compare(keyOf(arena, q), keyOf(arena, iter.current)) < 0}
            /\ \A j \in DOMAIN visited :
                  compare(keyOf(arena, visited[j]),
                          keyOf(arena, IF j = 1 THEN iter.current
                                       ELSE visited[j - 1])) < 0
            /\ ~IterValid(backwardEnd(arena, skl, iter))
            /\ (level0(arena, skl) # << >>
                    /\ iter.current = level0(arena, skl)[1]) =>
                  /\ ~IterPrev(arena, skl, iter).ret
                  /\ ~IterValid(IterPrev(arena, skl, iter).it))

\* C6's case: three nodes, the middle one a tombstone, and Prev has just
\* moved the iterator from the largest key onto the tombstone.
C6_Witness ==
    /\ Len(level0(arena, skl)) = 3
    /\ last.op = "Prev" /\ last.ok
    /\ iter.current = level0(arena, skl)[2]
    /\ getNode(arena, iter.current).valuePtr = InvalidHandle
    /\ liveKeys = {Slice(<<1>>), Slice(<<2>>)}

\* The callers that hold an iterator: IncRef done in Iterator(), DecRef not
\* yet done in Close().
holders == {c \in DOMAIN refs : refs[c].pc \in {"incremented", "open"}}

\* C8: under any interleaving of concurrent Iterator() and Close() calls in
\* which each iterator obtained is closed at most once, the reference count
\* is 1 plus the number of iterators obtained and not yet closed; once all
\* of them are closed it is its starting value 1.
C8_RefCount ==
    /\ RefCount(skl) = 1 + Cardinality(holders)
    /\ (\A c \in DOMAIN refs : refs[c].pc = "idle") => RefCount(skl) = 1

\* C8's case: every caller has obtained and closed all its iterators but
\* one caller, which is inside Close() after its DecRef while the others are
\* done: the calls have interleaved and the count is back to 1.
C8_Witness ==
    /\ \A c \in RefCallers : refs[c].rounds = MaxRounds
    /\ refs[1].pc = "decremented"
    /\ refs[2].pc = "idle" /\ refs[3].pc = "idle"
    /\ RefCount(skl) = 1

\* round_up(s, 8): the least multiple of 8 that is >= s.
roundUp8(s) == CHOOSE m \in s..(s + 7) : m % 8 = 0

\* C9: every handle h returned by a successful Allocate(s), or written by a
\* successful AllocateMultiple for a slot of requested size s, has
\* Size(h) = s, Offset(h) >= 128 and Offset(h) + Size(h) <= buffer length,
\* and is not the invalid handle 0.
C9_HandleBounds ==
    \A j \in DOMAIN blocks :
        /\ U64(Size(blocks[j].addr)) = blocks[j].size
        /\ Offset(blocks[j].addr) >= ARENA_MIN_ADDRESS
        /\ Offset(blocks[j].addr) + Size(blocks[j].addr) <= arena.size
        /\ blocks[j].addr # InvalidHandle

\* C9's case: an AllocateMultiple and an Allocate of an unaligned size have
\* both succeeded, their calls overlapping.
C9_Witness ==
    /\ ~serial
    /\ \E j \in DOMAIN blocks : blocks[j].size = U64(200)
    /\ \E j \in DOMAIN blocks : blocks[j].size = U64(13)
    /\ \A c \in ArenaCallers : allocs[c].pc = "idle"

RECURSIVE sumRoundUp8(_)
\* The sum of round_up(s, 8) over the requested sizes of the blocks bs.
sumRoundUp8(bs) ==
    IF bs = << >> THEN 0
    ELSE roundUp8(Head(bs).size.lo) + sumRoundUp8(Tail(bs))

\* C10: for any sequence of Allocate and AllocateMultiple calls on an arena
\* (failed calls included), Remaining() has decreased from its initial value
\* buffer length - 128 by exactly the sum of round_up(s, 8) over the
\* requested sizes s of the blocks that were successfully allocated.
C10_RemainingAccounting ==
    serial =>
        Remaining(arena)
            = (arena.size - ARENA_MIN_ADDRESS) - sumRoundUp8(blocks)

\* C10's case: three calls one after the other: an unaligned Allocate and
\* an AllocateMultiple succeeded, and the last call made failed.
C10_Witness ==
    /\ serial
    /\ ncalls = MaxCalls
    /\ \A c \in ArenaCallers : allocs[c].pc = "idle"
    /\ \E j \in DOMAIN blocks : blocks[j].size = U64(13)
    /\ \E j \in DOMAIN blocks : blocks[j].size = U64(300)
    /\ \E c \in ArenaCallers :
          allocs[c].op = "Allocate" /\ ~allocs[c].ok
          /\ allocs[c].slots # <<W(1, 0)>>


C12_FailedMultipleFrame ==
    \A c \in ArenaCallers :
        (allocs[c].op = "AllocateMultiple" /\ allocs[c].pc = "idle"
         /\ ~allocs[c].ok) =>
            /\ allocs[c].out = allocs[c].slots
            /\ \A j \in DOMAIN allocs[c].out :
                  /\ View(arena, allocs[c].out[j]) = NilSlice
                  /\ \A b \in DOMAIN blocks :
                        blocks[b].addr # allocs[c].out[j]

\* C12's case: an AllocateMultiple of the three blocks of the tests passed
\* its load of the cursor while an Allocate of nearly the whole page was in
\* progress, added after it, and returned false with the cursor overshot.
C12_Witness ==
    /\ ncalls = 2
    /\ arena.size = ARENA_PAGESIZE
    /\ arena.cursor = ARENA_MIN_ADDRESS + (ARENA_PAGESIZE - ARENA_MIN_ADDRESS - 16)
                         + 56 + 200 + 304
    /\ \E c \in ArenaCallers :
          /\ allocs[c].op = "AllocateMultiple" /\ allocs[c].pc = "idle"
          /\ ~allocs[c].ok
          /\ allocs[c].slots = <<U64(50), U64(200), U64(300)>>


RECURSIVE prefixRoundUp8(_, _)
\* The sum of round_up(s_j, 8) over the first n of the sizes in slots.
prefixRoundUp8(slots, n) ==
    IF n = 0 THEN 0
    ELSE roundUp8(slots[n].lo) + prefixRoundUp8(slots, n - 1)

\* C13: a successful AllocateMultiple(s_1, ..., s_n) overwrites slot k with
\* a handle of size s_k whose offset is the offset of slot 1 plus the sum of
\* round_up(s_j, 8) for j < k; slot 1 starts where the cursor was at the
\* add, and the cursor advances once, by the sum of all the aligned sizes.
C13_ContiguousBlocks ==
    [][\A c \in ArenaCallers :
          (AllocateMultipleReturn(c) /\ allocs'[c].ok) =>
              /\ DOMAIN allocs'[c].out = DOMAIN allocs[c].slots
              /\ Offset(allocs'[c].out[1]) = arena.cursor
              /\ \A k \in DOMAIN allocs[c].slots :
                    /\ Size(allocs'[c].out[k]) = allocs[c].slots[k].lo
                    /\ Offset(allocs'[c].out[k])
                          = Offset(allocs'[c].out[1])
                            + prefixRoundUp8(allocs[c].slots, k - 1)
              /\ arena'.cursor
                    = arena.cursor
                      + prefixRoundUp8(allocs[c].slots, Len(allocs[c].slots))
      ]_vars

\* C13's case: AllocateMultiple of sizes 50, 200, 300 has succeeded after
\* an Allocate of an unaligned size: the offsets differ by 56 and by 200.
C13_Witness ==
    \E c \in ArenaCallers :
        /\ allocs[c].op = "AllocateMultiple" /\ allocs[c].pc = "idle"
        /\ allocs[c].ok
        /\ allocs[c].slots = <<U64(50), U64(200), U64(300)>>
        /\ Offset(allocs[c].out[1]) = ARENA_MIN_ADDRESS + 16
        /\ Offset(allocs[c].out[2]) - Offset(allocs[c].out[1]) = 56
        /\ Offset(allocs[c].out[3]) - Offset(allocs[c].out[2]) = 200
        /\ arena.cursor = ARENA_MIN_ADDRESS + 16 + 56 + 200 + 304


\* C14: with a single caller, Allocate(size) for size > 0 returns the
\* invalid handle 0 when size > 2^31 - 1 or when round_up(size, 8) exceeds
\* Remaining(), and a valid handle in every other case, an exact fit
\* round_up(size, 8) = Remaining() included.
C14_AllocateOutcome ==
    [][\A c \in ArenaCallers :
          /\ (serial' /\ AllocateLoad(c) /\ allocs'[c].slots[1] # U64(0)) =>
                /\ (allocs'[c].pc = "idle")
                      <=> \/ allocs'[c].slots[1].hi > 0
                          \/ allocs'[c].slots[1].lo > 2147483647
                          \/ roundUp8(allocs'[c].slots[1].lo) > Remaining(arena)
                /\ (allocs'[c].pc = "idle") =>
                      allocs'[c].out = <<U64(0)>> /\ arena' = arena
          /\ (serial /\ AllocateReturn(c) /\ allocs[c].slots[1] # U64(0)) =>
                /\ allocs'[c].ok
                /\ allocs'[c].out[1] # U64(0)
                /\ Offset(allocs'[c].out[1]) >= ARENA_MIN_ADDRESS
      ]_vars

\* C14's case: calls made one after the other on a one-page arena: an
\* Allocate(13) was an exact fit (its 16 bytes were the last 16), and the
\* same request made again was refused.
C14_Witness ==
    /\ serial
    /\ arena.cursor = arena.size
    /\ \E c, d \in ArenaCallers :
          /\ allocs[c].op = "Allocate" /\ allocs[c].pc = "idle"
          /\ allocs[c].ok /\ allocs[c].slots = <<U64(13)>>
          /\ Offset(allocs[c].out[1]) + 16 = arena.size
          /\ allocs[d].op = "Allocate" /\ allocs[d].pc = "idle"
          /\ ~allocs[d].ok /\ allocs[d].slots = <<U64(13)>>


\* C15: after Reset() on a quiescent arena in any state (one whose capacity
\* was exhausted included), Remaining() equals buffer_len - 128, every byte
\* of the buffer is zero, and a subsequent Allocate(s) with
\* 0 < s <= Remaining() succeeds and returns offset 128.
C15_ResetRestores ==
    /\ last.op = "Reset" =>
          /\ Remaining(arena) = arena.size - 128
          /\ \A i \in DOMAIN last.pre.arena.buffer \cup DOMAIN arena.buffer
                      \cup {0, 127, 128, arena.size - 1} : ByteAt(arena, i) = 0
          /\ \A s \in {1, 13, Remaining(arena) - 1, Remaining(arena)} :
                Allocate(arena, U64(s)).addr = W(128, s)
    /\ (last.op = "Allocate" /\ last.pre.op = "Reset"
        /\ last.key.lo <= Remaining(last.pre.arena)) =>
          last.ok /\ Offset(last.ret) = 128 /\ Size(last.ret) = last.key.lo

\* C15's case: Reset() has just run on an arena whose cursor was past the
\* end of the buffer and whose first block held bytes the owner had
\* written.
C15_Witness ==
    /\ last.op = "Reset"
    /\ last.pre.arena.cursor > arena.size
    /\ ByteAt(last.pre.arena, 128) = 171
    /\ Remaining(last.pre.arena) < 0

\* C16: for every 64-bit handle, handles no allocation returned included,
\* View(handle) is nil if offset < 128 or offset + size > buffer_len, and
\* otherwise a view of exactly size bytes covering
\* buffer[offset .. offset + size); it gives no access below offset 128 or
\* past the end, and changes neither the cursor nor the buffer.
C16_ViewBounds ==
    last.op = "View" =>
        /\ arena = last.pre.arena
        /\ IF last.ret.hi < 128 \/ last.ret.hi + last.ret.lo > arena.size
           THEN last.value.nil /\ last.value.data = << >>
           ELSE /\ ~last.value.nil
                /\ Len(last.value.data) = last.ret.lo
                /\ \A i \in 1..last.ret.lo :
                      last.value.data[i] = ByteAt(arena, last.ret.hi + i - 1)

\* C16's case: View of a handle the owner made up, inside its first block,
\* shows the two bytes the owner wrote there.
C16_Witness ==
    /\ last.op = "View"
    /\ last.ret = W(128, 2)
    /\ last.value = Slice(<<171, 205>>)


\* The level-i chain from the head has keys strictly increasing under the
\* comparator.
increasing(a, g, i) ==
    With(chainFrom(a, g.head, i), LAMBDA c :
        \A j \in 1..(Len(c) - 1) :
            compare(keyOf(a, c[j]), keyOf(a, c[j + 1])) < 0)

\* C17: after any sequence of Insert calls by a single writer (new keys,
\* updates, deletes, failed inserts), for every level i in [0, 24) the chain
\* head -> nexts[i] -> ... ends at offset 0 after finitely many steps and
\* the keys of its nodes are strictly increasing under the comparator: no
\* key is in two nodes and no chain has a cycle.
C17_LevelsSorted ==
    \A i \in 0..(MSKIP_MAX_LEVEL - 1) :
        /\ increasing(arena, skl, i)
        /\ Len(chainFrom(arena, skl.head, i)) <= ninserts

\* C17's case: three keys are linked, one of them at a level above 0 as
\* well, and the last Insert put a new smallest key in front of the others.
C17_Witness ==
    /\ Len(level0(arena, skl)) = 3
    /\ chainFrom(arena, skl.head, 1) # << >>
    /\ wasInsert /\ last.key = Slice(<<1>>)
    /\ nodeBefore = ARENA_INVALID_ADDRESS


\* The offsets of the nodes of the level-i chain from the head.
chainSet(a, g, i) ==
    With(chainFrom(a, g.head, i), LAMBDA c : {c[j] : j \in DOMAIN c})

\* The data nodes of the list: the nodes linked at some level.
linked(a, g) == UNION {chainSet(a, g, i) : i \in 0..(MSKIP_MAX_LEVEL - 1)}

\* C18: after any completed Insert, every data node whose level field is h
\* is a member of the chain from head at each level 0 .. h-1 and of no chain
\* at level >= h, with 1 <= h <= 24; the head sentinel has level 24.
C18_NodeHeights ==
    /\ getNode(arena, skl.head).level = 24
    /\ \A ptr \in linked(arena, skl) :
          /\ getNode(arena, ptr).level \in 1..24
          /\ \A i \in 0..(MSKIP_MAX_LEVEL - 1) :
                (ptr \in chainSet(arena, skl, i))
                    <=> (i < getNode(arena, ptr).level)

\* C18's case: the list holds nodes of different heights, one of height 1
\* and two of height 2, after three Insert calls.
C18_Witness ==
    /\ wasInsert
    /\ Len(level0(arena, skl)) = 3
    /\ \E p, q, r \in linked(arena, skl) :
          /\ getNode(arena, p).level = 1
          /\ getNode(arena, q).level = 2 /\ getNode(arena, r).level = 2
          /\ q # r


\* The bytes by which the last Insert moved the arena cursor.
cursorAdvance == arena.cursor - last.pre.arena.cursor

C20_DeleteNoAllocation ==
    (wasInsert /\ last.value.nil) =>
        /\ cursorAdvance = 0
        /\ Remaining(arena) = Remaining(last.pre.arena)

\* C20, amended: Insert(K, nil) performs no arena allocation when the list
\* holds a node for K (live or already deleted): it succeeds and the cursor
\* is where it was.  When no node holds K the call adds one, deleted from
\* the start: it reserves the node record and the key, moving the cursor by
\* round_up(24 + 4*level, 8) + round_up(len(K), 8), or fails without moving
\* it when they do not fit.
C20_DeleteAllocation ==
    (wasInsert /\ last.value.nil) =>
        IF nodeBefore # ARENA_INVALID_ADDRESS
        THEN last.ok /\ last.ret = nodeBefore /\ cursorAdvance = 0
        ELSE IF last.ok
        THEN /\ cursorAdvance
                  = roundUp8(24 + 4 * getNode(arena, last.ret).level)
                    + roundUp8(Len(last.key.data))
             /\ last.ret \in level0Set(arena, skl)
             /\ getNode(arena, last.ret).valuePtr = U64(0)
        ELSE cursorAdvance = 0

\* C20's case: a delete of a key whose node holds a value, on a list with
\* another key, after a delete of a key the list did not hold had added a
\* node.
C20_Witness ==
    /\ wasInsert /\ last.value.nil /\ last.ok
    /\ nodeBefore # ARENA_INVALID_ADDRESS
    /\ getNode(last.pre.arena, nodeBefore).valuePtr # U64(0)
    /\ \E k \in DOMAIN latest : k # last.key /\ latest[k].nil


\* C21: once a node has been linked into the level-0 chain it stays
\* reachable from head through level-0 links after every later Insert (new
\* key, update, delete or failed insert), and its key handle and the key
\* bytes it refers to never change; only its value handle may change.
C21_NodesStay ==
    wasInsert =>
        \A ptr \in level0Set(last.pre.arena, last.pre.skl) :
            /\ ptr \in level0Set(arena, skl)
            /\ getNode(arena, ptr).keyPtr
                  = getNode(last.pre.arena, ptr).keyPtr
            /\ keyOf(arena, ptr) = keyOf(last.pre.arena, ptr)
            /\ getNode(arena, ptr).level = getNode(last.pre.arena, ptr).level

\* C21's case: the list held two nodes, and the last of the Insert calls
\* put a new key in front of them.
C21_Witness ==
    /\ wasInsert /\ last.ok
    /\ nodeBefore = ARENA_INVALID_ADDRESS
    /\ Len(level0(last.pre.arena, last.pre.skl)) = 2
    /\ level0(arena, skl)[1] = last.ret
    /\ ninserts = MaxInserts


\* The node of the level-i chain with the greatest key strictly less than
\* key, or the head when the chain has no such node.
greatestLess(a, g, key, i) ==
    LET less == {ptr \in chainSet(a, g, i) : compare(keyOf(a, ptr), key) < 0}
    IN  IF less = {} THEN g.head
        ELSE CHOOSE ptr \in less :
                 \A q \in less : compare(keyOf(a, ptr), keyOf(a, q)) >= 0

\* C22: on any list satisfying the ordering invariant, seeklt(K, log)
\* returns the node with the greatest key strictly less than K, or head if
\* there is none (head on an empty list), and for every level i it sets
\* log[i] to the last node of the level-i chain whose key is < K (head if
\* none), so that log[i].nexts[i] is either 0 or a node whose key is >= K.
C22_SeekltPredecessors ==
    last.op = "seeklt" =>
        With(seeklt(arena, skl, last.key), LAMBDA s :
            /\ s.ptr = greatestLess(arena, skl, last.key, 0)
            /\ iter.current = s.ptr
            /\ DOMAIN s.log = 0..23
            /\ \A i \in 0..23 :
                  /\ s.log[i] = greatestLess(arena, skl, last.key, i)
                  /\ \/ getNode(arena, s.log[i]).nexts[i] = 0
                     \/ compare(keyOf(arena, getNode(arena, s.log[i]).nexts[i]),
                                last.key) >= 0)

\* C22's case: seeklt of the greatest of three stored keys, on a list with
\* two levels in use: two nodes are passed on the way.
C22_Witness ==
    /\ last.op = "seeklt"
    /\ last.key = Slice(<<2>>)
    /\ Len(level0(arena, skl)) = 3
    /\ chainFrom(arena, skl.head, 1) # << >>
    /\ iter.current = level0(arena, skl)[2]


\* The level-0 node with the greatest key <= key, or the invalid offset
\* when the list stores no such key.
greatestLessEq(a, g, key) ==
    LET le == {ptr \in level0Set(a, g) : compare(keyOf(a, ptr), key) <= 0}
    IN  IF le = {} THEN ARENA_INVALID_ADDRESS
        ELSE CHOOSE ptr \in le :
                 \A q \in le : compare(keyOf(a, ptr), keyOf(a, q)) >= 0

\* C23: after the iterator's seekle(K), the iterator is positioned on the
\* node with the greatest key <= K (the node with key K itself when K is
\* stored, tombstone or not), and is invalid exactly when the list stores
\* no key <= K.
C23_SeekleGreatestLessEq ==
    last.op = "seekle" =>
        /\ iter.current = greatestLessEq(arena, skl, last.key)
        /\ nodeOf(arena, skl, last.key) # ARENA_INVALID_ADDRESS =>
              iter.current = nodeOf(arena, skl, last.key)
        /\ ~IterValid(iter) <=>
              \A ptr \in level0Set(arena, skl) :
                  compare(keyOf(arena, ptr), last.key) > 0

\* C23's case: seekle of a key that is stored and deleted, with a smaller
\* and a greater key stored: the iterator is on the tombstone.
C23_Witness ==
    /\ last.op = "seekle"
    /\ last.key = Slice(<<1, 2>>)
    /\ Len(level0(arena, skl)) = 3
    /\ iter.current = level0(arena, skl)[2]
    /\ getNode(arena, iter.current).valuePtr = InvalidHandle

\* C24 as stated: after the iterator's seeklt(K), the iterator is
\* positioned on the node with the largest key strictly less than K, and it
\* is invalid (Valid() = false) when no stored key is less than K, i.e. when
\* the predecessor would be the head sentinel.
C24_SeekltInvalidAtHead ==
    last.op = "seeklt" =>
        IF \E ptr \in level0Set(arena, skl) :
               compare(keyOf(arena, ptr), last.key) < 0
        THEN iter.current = greatestLess(arena, skl, last.key, 0)
        ELSE ~IterValid(iter)


\* C29: after any sequence of the iterator operations of the public
\* interface (Iterator, First, Seek, Next, Key, Value) together with Prev,
\* on any list, the iterator's current offset is never the head sentinel
\* when an operation returns: whenever Valid() is true the iterator is on a
\* data node.
C29_NeverOnHead ==
    iter.skl =>
        /\ iter.current # skl.head
        /\ IterValid(iter) => iter.current \in level0Set(arena, skl)
        /\ last.op = "Key" => (IterValid(iter) <=> ~last.value.nil)

\* C29's case: Prev() was called on the first node of a list of two nodes,
\* where seeklt returns the head: Prev returned false and the iterator is
\* invalid.
C29_Witness ==
    /\ iter.skl
    /\ last.op = "Prev" /\ ~last.ok
    /\ ~IterValid(iter)
    /\ Len(level0(arena, skl)) = 2


\* C27: under any interleaving of concurrent Allocate and AllocateMultiple
\* callers on one arena (each call an atomic load of the cursor followed by
\* an atomic add), the aligned byte ranges
\* [offset, offset + round_up(size, 8)) of all successfully returned blocks
\* are pairwise disjoint and all lie inside [128, buffer_len).
C27_BlocksDisjoint ==
    /\ \A j \in DOMAIN blocks :
          /\ Offset(blocks[j].addr) >= 128
          /\ Offset(blocks[j].addr) + roundUp8(Size(blocks[j].addr))
                <= arena.size
    /\ \A j, k \in DOMAIN blocks :
          j < k =>
              \/ Offset(blocks[j].addr) + roundUp8(Size(blocks[j].addr))
                    <= Offset(blocks[k].addr)
              \/ Offset(blocks[k].addr) + roundUp8(Size(blocks[k].addr))
                    <= Offset(blocks[j].addr)

\* C27's case: two AllocateMultiple calls, the second begun before the
\* first had added, have both returned their three blocks.
C27_Witness ==
    /\ ~serial
    /\ ncalls = 2
    /\ Len(blocks) = 6
    /\ \A c \in ArenaCallers : allocs[c].pc = "idle" /\ allocs[c].ok


RECURSIVE advance(_, _)
\* The generator state after k draws from state.
advance(state, k) ==
    IF k = 0 THEN state
    ELSE With(Add64(state, IncrementConstant), LAMBDA s : advance(s, k - 1))

RECURSIVE evenRun(_, _)
\* The number of consecutive even draws from the j-th draw after state on,
\* counted up to the 23rd draw.
evenRun(state, j) ==
    IF j > 23 THEN 0
    ELSE IF next(advance(state, j))[1] % 2 = 1 THEN 0
    ELSE 1 + evenRun(state, j + 1)

\* C28: randLevel() returns min(24, 1 + n) where n is the number of
\* consecutive even SplitMix64 draws (state += 0x9E3779B97F4A7C15 modulo
\* 2^64, then the finalizer) taken before the first odd draw; the result is
\* always in [1, 24], at most 23 draws are consumed per call, and the
\* sequence of levels is a function of the initial seed alone.
C28_RandLevel ==
    last.op = "randLevel" =>
        /\ last.ret = 1 + evenRun(last.pre.seed, 1)
        /\ last.ret \in 1..24
        /\ skl.seed = advance(last.pre.seed,
                              IF last.ret < 24 THEN last.ret ELSE 23)
        /\ last.ret = randLevel(last.pre.seed).level

\* C28's case: the first call on the seed whose first 23 draws are even
\* returned 24 and left the generator 23 draws on.
C28_Witness ==
    /\ last.op = "randLevel"
    /\ last.pre.seed = Bytes8(1021507)
    /\ last.ret = 24
    /\ skl.seed = advance(Bytes8(1021507), 23)


\* The level-i chain without the node at ptr.
chainWithout(a, g, i, ptr) ==
    SelectSeq(chainFrom(a, g.head, i), LAMBDA q : q # ptr)

\* The new node of the Insert rec is complete wherever it is linked: at
\* each level the chain is the one from before the Insert with at most the
\* new node added, and a chain that holds the new node finds its level,
\* key handle, key bytes and value written.
writtenBeforeReachable(rec) ==
    \A i \in 0..(MSKIP_MAX_LEVEL - 1) :
        /\ chainWithout(arena, skl, i, rec.node)
              = chainFrom(calls.before, skl.head, i)
        /\ rec.node \in chainSet(arena, skl, i) =>
              /\ rec.node # ARENA_INVALID_ADDRESS
              /\ i < rec.level
              /\ getNode(arena, rec.node).level = rec.level
              /\ getNode(arena, rec.node).keyPtr = rec.keyPtr
              /\ keyOf(arena, rec.node) = rec.key
              /\ getNode(arena, rec.node).valuePtr # InvalidHandle
              /\ View(arena, getNode(arena, rec.node).valuePtr) = rec.value

\* The seeklt rec returned the greatest key < rec.key of one of the key
\* sets level 0 held during the call: the node with that key, or the head
\* when the set has no smaller key.
returnedPredecessor(rec) ==
    \E ks \in rec.seen :
        LET less == {k \in ks : compare(k, rec.key) < 0}
        IN  IF less = {} THEN rec.ret = skl.head
            ELSE /\ rec.ret # skl.head
                 /\ keyOf(arena, rec.ret) \in less
                 /\ \A k \in less : compare(keyOf(arena, rec.ret), k) >= 0

\* What holds of the memory after every store of a single writer's Insert.
wellFormedAfterEachStore ==
    /\ \A w \in Writers :
          calls.of[w].op = "Insert" => writtenBeforeReachable(calls.of[w])
    /\ \A i \in 0..(MSKIP_MAX_LEVEL - 1) : increasing(arena, skl, i)

\* C25 as stated: while a single writer executes the linking loop of an
\* insert, after every individual link write the list seen by a reader is
\* well formed: the new node's key, level and value handle and its nexts[i]
\* are written before the node becomes reachable at level i, each level's
\* chain stays strictly increasing, and a seek_lt(K') whose steps interleave
\* with the writer's link writes returns the greatest key < K' of either the
\* key set before the insert or the key set after it.
C25_AnyReader ==
    /\ wellFormedAfterEachStore
    /\ \A r \in Readers :
          calls.of[r].pc = "done" => returnedPredecessor(calls.of[r])

\* C25, amended: after every store of a single writer's Insert the memory
\* is well formed (the new node's fields and its nexts[i] are stored before
\* the store that links it at level i, and every chain is strictly
\* increasing), and a seeklt(K') whose loads observe the writer's stores in
\* program order returns the greatest key < K' of the key set before the
\* insert or of the key set after it.
C25_OrderedReader ==
    /\ wellFormedAfterEachStore
    /\ \A r \in Readers :
          (calls.ordered /\ calls.of[r].pc = "done")
              => returnedPredecessor(calls.of[r])

\* C25's case: a seeklt that began before the writer's first link store
\* returned the new node while the writer, with level 0 linked, had still
\* to link level 1; the loads were ordered after the stores.
C25_Witness ==
    /\ calls.ordered
    /\ DOMAIN calls.of = {"w", "r"}
    /\ calls.of["r"].pc = "done"
    /\ Cardinality(calls.of["r"].seen) = 2
    /\ calls.of["w"].pc = "load"
    /\ calls.of["w"].i = 1
    /\ calls.of["w"].level = 2
    /\ calls.of["r"].ret = calls.of["w"].node
    /\ level0(calls.before, skl) # << >>


\* The writers whose Insert has returned true.
returnedTrue ==
    {w \in Writers : calls.of[w].pc = "done"
                      /\ calls.of[w].ret # ARENA_INVALID_ADDRESS}

\* A key some Insert stored successfully is in no node of level 0.
keyLost ==
    \E w \in returnedTrue :
        \A ptr \in level0Set(arena, skl) : keyOf(arena, ptr) # calls.of[w].key

\* Two nodes of level 0 hold the same key.
keyTwice ==
    \E p \in level0Set(arena, skl), q \in level0Set(arena, skl) :
        p # q /\ keyOf(arena, p) = keyOf(arena, q)

\* C26: skip-list writes are not safe under concurrent callers: when two
\* Insert calls run without external serialization and their seek and link
\* steps interleave, a state is reachable in which both calls returned true
\* but the list invariants are broken (a successfully inserted key is not
\* reachable at level 0, or the same key is stored in two nodes). The
\* invariant is the other half: once both calls have returned, the list is
\* broken only if the two calls overlapped.
C26_BrokenOnlyIfOverlapped ==
    (inFlight = {} /\ serial) =>
        /\ ~keyLost
        /\ ~keyTwice
        /\ increasing(arena, skl, 0)

\* C26's case: two Insert calls overlapped, both returned true, and the
\* key of one of them is in no node of level 0.
C26_Witness ==
    /\ ~serial
    /\ returnedTrue = {"w1", "w2"}
    /\ keyLost

\* The other broken state of C26: both calls returned true for the same
\* key, which two nodes of level 0 now hold.
C26_WitnessTwice ==
    /\ ~serial
    /\ returnedTrue = {"w1", "w2"}
    /\ calls.of["w1"].key = calls.of["w2"].key
    /\ keyTwice

=============================================================================
